---- MODULE Spec2Model ----
(***************************************************************************)
(* Model of the search mediation layer of bubble-ai-backend:               *)
(*   - api/mcp-server.js : rate limiter, semantic analysis, query cache    *)
(*   - MCPOrchestrator   : health probe, primary call, single failover     *)
(*   - MCP streaming     : stream registry, chunk fan-out, SSE subscribers *)
(* Each component is a set of actions over its own variables; one          *)
(* specification per component keeps the other components' state fixed.    *)
(***************************************************************************)
EXTENDS Integers, Sequences, FiniteSets, TLC

(***************************************************************************)
(* Program constants                                                       *)
(***************************************************************************)
CACHE_TTL == 300000

RATE_LIMIT == 100

RATE_WINDOW == 600000

(***************************************************************************)
(* Bounds of the model                                                     *)
(***************************************************************************)
\* number of times the clock advances in one behaviour
MaxTicks == 1
\* requests the second ("quiet") client keeps in its window
MaxQuietCalls == 1

ClientIds == {"alice", "bob"}

BusyClient == "alice"

VARIABLES
  now,              \* Date.now()
  ticks,            \* how often the clock advanced
  rateLimitTracker, \* clientId -> sequence of admission timestamps
  lastRate,         \* what the last checkRateLimit call returned
  queryCache,       \* the Map cacheKey -> entry, as <<key, entry>> pairs in insertion order
  semanticIndex,    \* keyword -> sequence of cache keys
  pendingSearches,  \* searchQuery calls suspended at their fetch
  providerCalls,    \* fetches issued so far
  lastSearch,       \* what the last searchQuery step did or returned
  serverHealth,     \* MCPOrchestrator.serverHealth: server name -> last probe outcome
  orchRequests,     \* the executeSearch calls: request id -> where each stands
  activeStreams,    \* the stream registry: stream id -> stream
  streamMetrics,    \* { active, total, chunksStreamed }
  streamFetches,    \* stream id -> the fetch of its streamSearch: pending, or how it ended
  removedStreams,   \* stream id -> the stream as it was when the registry dropped it
  timers,           \* pending setTimeout callbacks, in the order they were set
  subscribers,      \* the SSE connections, in the order they were opened
  lastEmit,         \* what the last streamChunk call found and returned
  apiRequests,      \* the HTTP requests the API handlers took, in arrival order
  tavilyKeySet,     \* whether process.env.TAVILY_API_KEY is set
  tavilyPosts,      \* POSTs issued to api.tavily.com so far
  firecrawlKeySet,  \* whether process.env.FIRECRAWL_API_KEY is set
  lastProvider,     \* what the last intelligentSearch call got and returned
  searchStats,      \* the statistics object of StatsTracker
  statCalls,        \* the recordSearch calls since the statistics were last reset
  lastAnalysis      \* what the last analyzeSemantics call returned

rateVars == <<rateLimitTracker, lastRate>>

cacheVars == <<queryCache, semanticIndex, pendingSearches, providerCalls, lastSearch>>

orchVars == <<serverHealth, orchRequests>>

streamVars == <<activeStreams, streamMetrics, streamFetches, removedStreams, timers,
                subscribers, lastEmit>>

clockVars == <<now, ticks>>

apiVars == <<apiRequests, tavilyKeySet, tavilyPosts, firecrawlKeySet, lastProvider>>

statsVars == <<searchStats, statCalls>>

analysisVars == <<lastAnalysis>>

vars == <<now, ticks, rateLimitTracker, lastRate,
          queryCache, semanticIndex, pendingSearches, providerCalls, lastSearch,
          serverHealth, orchRequests,
          activeStreams, streamMetrics, streamFetches, removedStreams, timers,
          subscribers, lastEmit,
          apiRequests, tavilyKeySet, tavilyPosts, firecrawlKeySet, lastProvider,
          searchStats, statCalls, lastAnalysis>>

NoResult == [kind |-> "none"]

(***************************************************************************)
(* Rate limiter (api/mcp-server.js, checkRateLimit)                        *)
(***************************************************************************)
\* one array that every client's requests are counted in
WindowOf_Shared(tracker, clientId) ==
  IF DOMAIN tracker = {} THEN <<>> ELSE tracker[CHOOSE c \in DOMAIN tracker : TRUE]

\* the client's array, created empty on first use
WindowOf(tracker, clientId) ==
  IF clientId \in DOMAIN tracker THEN tracker[clientId] ELSE <<>>

\* a filter that keeps a timestamp whose age is exactly the window
InWindow_Inclusive(t, windowStart) == t >= windowStart

\* .filter(t => t > windowStart)
InWindow(t, windowStart) == t > windowStart

PruneWindow(w, t) ==
  LET windowStart == t - RATE_WINDOW
      Keep(x) == InWindow(x, windowStart)
  IN  SelectSeq(w, Keep)

\* a limiter that admits without recording the admission
checkRateLimit_NoPush(tracker, clientId, t) ==
  LET pruned == PruneWindow(WindowOf(tracker, clientId), t)
      others == [c \in DOMAIN tracker \ {clientId} |-> tracker[c]]
  IN  [tracker |-> others @@ (clientId :> pruned),
       result  |-> [kind |-> "rate", clientId |-> clientId, allowed |-> Len(pruned) < RATE_LIMIT,
                    remaining |-> RATE_LIMIT - Len(pruned), resetAt |-> t + RATE_WINDOW]]

\* a quota test that admits one request too many
RateLimitFull_OffByOne(w) == Len(w) > RATE_LIMIT

\* rateLimitTracker[clientId].length >= RATE_LIMIT
RateLimitFull(w) == Len(w) >= RATE_LIMIT

\* a limiter that records the time of a denied request as well
checkRateLimit_PushOnDeny(tracker, clientId, t) ==
  LET pruned == PruneWindow(WindowOf(tracker, clientId), t)
      others == [c \in DOMAIN tracker \ {clientId} |-> tracker[c]]
      pushed == Append(pruned, t)
  IN  [tracker |-> others @@ (clientId :> pushed),
       result  |-> IF RateLimitFull(pruned)
                   THEN [kind |-> "rate", clientId |-> clientId, allowed |-> FALSE,
                         remaining |-> 0, resetAt |-> pruned[1] + RATE_WINDOW]
                   ELSE [kind |-> "rate", clientId |-> clientId, allowed |-> TRUE,
                         remaining |-> RATE_LIMIT - Len(pushed),
                         resetAt |-> t + RATE_WINDOW]]

\* the new tracker and the returned object of checkRateLimit(clientId) at time t
checkRateLimit(tracker, clientId, t) ==
  LET pruned == PruneWindow(WindowOf(tracker, clientId), t)
      others == [c \in DOMAIN tracker \ {clientId} |-> tracker[c]]
  IN  IF RateLimitFull(pruned)
      THEN [tracker |-> others @@ (clientId :> pruned),
            result  |-> [kind |-> "rate", clientId |-> clientId, allowed |-> FALSE,
                         remaining |-> 0, resetAt |-> pruned[1] + RATE_WINDOW]]
      ELSE LET pushed == Append(pruned, t)
           IN  [tracker |-> others @@ (clientId :> pushed),
                result  |-> [kind |-> "rate", clientId |-> clientId, allowed |-> TRUE,
                             remaining |-> RATE_LIMIT - Len(pushed),
                             resetAt |-> t + RATE_WINDOW]]

CheckRateLimit(c) ==
  /\ c # BusyClient => Len(WindowOf(rateLimitTracker, c)) < MaxQuietCalls
  /\ LET r == checkRateLimit(rateLimitTracker, c, now)
     IN  /\ rateLimitTracker' = r.tracker
         /\ lastRate' = r.result
  /\ UNCHANGED <<clockVars, cacheVars, orchVars, streamVars, apiVars, statsVars, analysisVars>>

\* the clock steps that put a timestamp just inside and just outside the window
RateTickSteps == {RATE_WINDOW - 1, RATE_WINDOW}

TickRate ==
  /\ ticks < MaxTicks
  /\ \E d \in RateTickSteps : now' = now + d
  /\ ticks' = ticks + 1
  /\ UNCHANGED <<rateVars, cacheVars, orchVars, streamVars, apiVars, statsVars, analysisVars>>

(***************************************************************************)
(* Strings are sequences of one-character strings, so that toLowerCase,    *)
(* trim and split act on the characters as the JavaScript methods do.      *)
(***************************************************************************)
UpperCase == <<"A","B","C","D","E","F","G","H","I","J","K","L","M",
               "N","O","P","Q","R","S","T","U","V","W","X","Y","Z">>

LowerCase == <<"a","b","c","d","e","f","g","h","i","j","k","l","m",
               "n","o","p","q","r","s","t","u","v","w","x","y","z">>

ToLowerChar(ch) ==
  IF \E i \in 1..Len(UpperCase) : UpperCase[i] = ch
  THEN LowerCase[CHOOSE i \in 1..Len(UpperCase) : UpperCase[i] = ch]
  ELSE ch

\* String.prototype.toLowerCase
toLowerCase(q) == [i \in 1..Len(q) |-> ToLowerChar(q[i])]

IsSpace(ch) == ch \in {" ", "\t", "\n", "\r"}

RECURSIVE TrimStart(_)
TrimStart(q) ==
  IF q = <<>> THEN q
  ELSE IF IsSpace(Head(q)) THEN TrimStart(Tail(q)) ELSE q

RECURSIVE TrimEnd(_)
TrimEnd(q) ==
  IF q = <<>> THEN q
  ELSE IF IsSpace(q[Len(q)]) THEN TrimEnd(SubSeq(q, 1, Len(q) - 1)) ELSE q

\* String.prototype.trim
trim(q) == TrimEnd(TrimStart(q))

\* a key that keeps the white space around the query
cacheKeyOf_NoTrim(q) == toLowerCase(q)

\* const cacheKey = query.toLowerCase().trim()
cacheKeyOf(q) == trim(toLowerCase(q))

\* how many "s" follow from position j on
RECURSIVE RunOfS(_, _)
RunOfS(q, j) ==
  IF j <= Len(q) /\ q[j] = "s" THEN 1 + RunOfS(q, j + 1) ELSE 0

\* the regular expression /\\s+/ : a backslash followed by one or more "s"
SeparatorAt(q, i) == q[i] = "\\" /\ RunOfS(q, i + 1) >= 1

\* String.prototype.split(/\\s+/)
RECURSIVE SplitFrom(_, _, _)
SplitFrom(q, i, piece) ==
  IF i > Len(q) THEN <<piece>>
  ELSE IF SeparatorAt(q, i)
       THEN <<piece>> \o SplitFrom(q, i + 1 + RunOfS(q, i + 1), <<>>)
       ELSE SplitFrom(q, i + 1, Append(piece, q[i]))

split(q) == SplitFrom(q, 1, <<>>)

\* .filter(w => w.length > 2)
LongEnough(w) == Len(w) > 2

\* q.match(/(a|b|...)/): some word occurs somewhere in q
Contains(q, w) ==
  \E i \in 1..(Len(q) - Len(w) + 1) : SubSeq(q, i, i + Len(w) - 1) = w

MatchesAny(q, ws) == \E w \in ws : Contains(q, w)

QuestionWords == {<<"h","o","w">>, <<"w","h","y">>, <<"w","h","a","t">>, <<"w","h","e","n">>, <<"w","h","e","r","e">>, <<"w","h","o">>}

SearchWords == {<<"f","i","n","d">>, <<"s","e","a","r","c","h">>, <<"l","o","o","k">>, <<"l","o","c","a","t","e">>}

CurrentWords == {<<"l","a","t","e","s","t">>, <<"n","e","w">>, <<"r","e","c","e","n","t">>, <<"t","o","d","a","y">>}

RankingWords == {<<"b","e","s","t">>, <<"t","o","p">>, <<"r","a","n","k">>, <<"c","o","m","p","a","r","e">>}

\* a detection that tests the rules from the last to the first
detectIntent_LastMatch(query) ==
  LET q == toLowerCase(query)
  IN  IF MatchesAny(q, RankingWords) THEN "ranking"
      ELSE IF MatchesAny(q, CurrentWords) THEN "current"
      ELSE IF MatchesAny(q, SearchWords) THEN "search"
      ELSE IF MatchesAny(q, QuestionWords) THEN "question"
      ELSE "general"

\* detectIntent, lines 47-54: the first alternative that matches the lower-cased query
detectIntent(query) ==
  LET q == toLowerCase(query)
  IN  IF MatchesAny(q, QuestionWords) THEN "question"
      ELSE IF MatchesAny(q, SearchWords) THEN "search"
      ELSE IF MatchesAny(q, CurrentWords) THEN "current"
      ELSE IF MatchesAny(q, RankingWords) THEN "ranking"
      ELSE "general"

\* detectCategory, lines 58-64: the table of categories, in the order of its keys
categories ==
  <<[cat |-> "tech", words |->
       {<<"j","a","v","a","s","c","r","i","p","t">>,
        <<"p","y","t","h","o","n">>,
        <<"r","e","a","c","t">>,
        <<"n","o","d","e","j","s">>,
        <<"c","o","d","e">>,
        <<"p","r","o","g","r","a","m","m","i","n","g">>,
        <<"a","p","i">>,
        <<"d","a","t","a","b","a","s","e">>}],
    [cat |-> "ai", words |->
       {<<"a","i">>,
        <<"m","a","c","h","i","n","e">>,
        <<"l","e","a","r","n","i","n","g">>,
        <<"m","o","d","e","l">>,
        <<"n","e","u","r","a","l">>,
        <<"l","l","m">>,
        <<"g","p","t">>}],
    [cat |-> "business", words |->
       {<<"s","t","a","r","t","u","p">>,
        <<"b","u","s","i","n","e","s","s">>,
        <<"m","a","r","k","e","t","i","n","g">>,
        <<"s","a","l","e","s">>,
        <<"g","r","o","w","t","h">>,
        <<"v","c">>,
        <<"f","u","n","d","i","n","g">>}],
    [cat |-> "news", words |->
       {<<"n","e","w","s">>,
        <<"b","r","e","a","k","i","n","g">>,
        <<"t","o","d","a","y">>,
        <<"c","u","r","r","e","n","t">>,
        <<"l","a","t","e","s","t">>,
        <<"h","a","p","p","e","n","i","n","g">>}],
    [cat |-> "gaming", words |->
       {<<"g","a","m","e">>,
        <<"r","o","b","l","o","x">>,
        <<"m","i","n","e","c","r","a","f","t">>,
        <<"u","n","i","t","y">>,
        <<"u","n","r","e","a","l">>,
        <<"s","t","e","a","m">>,
        <<"e","s","p","o","r","t","s">>}]>>

\* keywords.some(k => words.includes(k))
Overlaps(keywords, words) == \E n \in 1..Len(keywords) : keywords[n] \in words

\* a scan that returns the last category that overlaps
detectCategory_LastMatch(keywords) ==
  IF \E n \in 1..Len(categories) : Overlaps(keywords, categories[n].words)
  THEN LET last == CHOOSE n \in 1..Len(categories) :
                     /\ Overlaps(keywords, categories[n].words)
                     /\ \A m \in (n + 1)..Len(categories) : ~Overlaps(keywords, categories[m].words)
       IN  categories[last].cat
  ELSE "general"

\* detectCategory, lines 57-70: the first category of the table that shares a word
\* with the keywords, else general
detectCategory(keywords) ==
  IF \E n \in 1..Len(categories) : Overlaps(keywords, categories[n].words)
  THEN LET first == CHOOSE n \in 1..Len(categories) :
                      /\ Overlaps(keywords, categories[n].words)
                      /\ \A m \in 1..(n - 1) : ~Overlaps(keywords, categories[m].words)
       IN  categories[first].cat
  ELSE "general"

\* the keywords of a query: .toLowerCase().split(/\\s+/).filter(w => w.length > 2)
keywordsOf(q) == SelectSeq(split(toLowerCase(q)), LongEnough)

\* analyzeSemantics(query), lines 39-45
analyzeSemantics(q) ==
  [keywords |-> keywordsOf(q), intent |-> detectIntent(q),
   category |-> detectCategory(keywordsOf(q)), raw |-> q]

\* a tool that searches for the query as it came
SuffixOf_None(intent) == <<>>

\* semantic_search, lines 188-196: what the intent appends to the query
SuffixOf(intent) ==
  IF intent = "current" THEN <<" ","2","0","2","5"," ","l","a","t","e","s","t">>
  ELSE IF intent = "question" THEN <<" ","t","u","t","o","r","i","a","l"," ","g","u","i","d","e">>
  ELSE IF intent = "ranking" THEN <<" ","b","e","s","t"," ","c","o","m","p","a","r","i","s","o","n">>
  ELSE <<>>

enhancedQuery(query) == query \o SuffixOf(detectIntent(query))

(***************************************************************************)
(* Query cache and semantic index (api/mcp-server.js, searchQuery)         *)
(***************************************************************************)
MAX_RESULTS == 20

MAX_CACHE_SIZE == 1000

\* queryCache.has(key)
CacheHas(cache, key) == \E i \in 1..Len(cache) : cache[i].key = key

\* queryCache.get(key)
CacheGet(cache, key) ==
  cache[CHOOSE i \in 1..Len(cache) : cache[i].key = key].entry

\* a set that writes field by field and leaves the query of a present entry
CacheSet_KeepsQuery(cache, key, entry) ==
  IF CacheHas(cache, key)
  THEN [i \in 1..Len(cache) |->
          IF cache[i].key = key
          THEN [key |-> key, entry |-> [entry EXCEPT !.query = cache[i].entry.query]]
          ELSE cache[i]]
  ELSE Append(cache, [key |-> key, entry |-> entry])

\* queryCache.set(key, entry): a present key keeps its place in the order
CacheSet(cache, key, entry) ==
  IF CacheHas(cache, key)
  THEN [i \in 1..Len(cache) |->
          IF cache[i].key = key THEN [key |-> key, entry |-> entry] ELSE cache[i]]
  ELSE Append(cache, [key |-> key, entry |-> entry])

\* queryCache.delete(key)
CacheDelete(cache, key) ==
  LET Other(p) == p.key # key
  IN  SelectSeq(cache, Other)

\* an entry still served at the age of exactly the TTL
IsFresh_Inclusive(entry, t) == t - entry.timestamp <= CACHE_TTL

\* Date.now() - cached.timestamp < CACHE_TTL
IsFresh(entry, t) == t - entry.timestamp < CACHE_TTL

\* the entry inserted first, whatever its timestamp
OldestIndex_FirstInserted(cache) == 1

\* entries sorted by timestamp (a stable sort), element [0]
OldestIndex(cache) ==
  CHOOSE i \in 1..Len(cache) :
    \A j \in 1..Len(cache) :
      \/ cache[i].entry.timestamp < cache[j].entry.timestamp
      \/ cache[i].entry.timestamp = cache[j].entry.timestamp /\ i <= j

\* if (queryCache.size > 1000) delete the oldest
EvictIfLarge(cache) ==
  IF Len(cache) > MAX_CACHE_SIZE
  THEN CacheDelete(cache, cache[OldestIndex(cache)].key)
  ELSE cache

\* data.results.map((r, idx) => ...): relevance in units of 1/MAX_RESULTS
mapResults(key, payload) ==
  [n \in 1..Len(payload) |->
     [id |-> <<key, n - 1>>, item |-> payload[n], relevance |-> MAX_RESULTS - (n - 1)]]

\* semanticIndex.get(keyword).push(cacheKey), the list created on first use
IndexPush(index, keyword, key) ==
  IF keyword \in DOMAIN index
  THEN [index EXCEPT ![keyword] = Append(@, key)]
  ELSE index @@ (keyword :> <<key>>)

\* a store that leaves the semantic index as it is
IndexAdd_None(index, keywords, key) == index

RECURSIVE IndexAdd(_, _, _)
IndexAdd(index, keywords, key) ==
  IF keywords = <<>> THEN index
  ELSE IndexAdd(IndexPush(index, Head(keywords), key), Tail(keywords), key)

NewEntry(q, semantics, clientId, key, payload, t) ==
  [query |-> q, results |-> mapResults(key, payload), timestamp |-> t,
   semantics |-> semantics, clientId |-> clientId, hitCount |-> 0]

\* lines 105-130: set the entry, add to the index, evict when too large
StoreCache(cache, key, entry) == EvictIfLarge(CacheSet(cache, key, entry))

\* a lookup that deletes the expired entry it finds
AfterLookup_Purges(cache, key, t) ==
  IF CacheHas(cache, key) /\ ~IsFresh(CacheGet(cache, key), t)
  THEN CacheDelete(cache, key)
  ELSE cache

\* a lookup that counts the hit on the entry it serves
AfterLookup_CountsHit(cache, key, t) ==
  IF CacheHas(cache, key) /\ IsFresh(CacheGet(cache, key), t)
  THEN CacheSet(cache, key, [CacheGet(cache, key) EXCEPT !.hitCount = @ + 1])
  ELSE cache

\* lines 78-87: the lookup reads the entry and writes nothing to the cache
AfterLookup(cache, key, t) == cache

\* a lookup that serves whatever entry is present
LookupHits_AnyAge(cache, key, t) == CacheHas(cache, key)

\* the lookup of lines 78-87: a present, fresh entry
LookupHits(cache, key, t) == CacheHas(cache, key) /\ IsFresh(CacheGet(cache, key), t)

(***************************************************************************)
(* The raw queries clients send and the payloads the search API returns    *)
(***************************************************************************)
QLatestAINews ==
  <<"L","a","t","e","s","t"," ","A","I"," ","N","e","w","s">>

QLatestAINewsPadded ==
  <<"l","a","t","e","s","t"," ","a","i"," ","n","e","w","s"," ">>

QLatestInnerGap ==
  <<"l","a","t","e","s","t"," "," ","a","i"," ","n","e","w","s">>

QAI == <<" ","A","I">>

Queries == {QLatestAINews, QLatestAINewsPadded, QLatestInnerGap, QAI}

\* data.results of a successful response: items stand for {title, url, snippet}
Payloads == {<<"r1">>, <<"r2", "r1">>}

\* the fetch settles with results the mapping accepts
GoodOutcomes == {[success |-> TRUE, wellFormed |-> TRUE, results |-> pl] : pl \in Payloads}

\* a fetch that throws or answers success=false; a result whose url new URL() rejects
FailedOutcomes ==
  {[success |-> FALSE, wellFormed |-> TRUE, results |-> <<>>],
   [success |-> TRUE, wellFormed |-> FALSE, results |-> <<"r1">>]}

\* the fetch or response.json() rejects (network error, timeout): no payload at all
NoPayload == [success |-> FALSE, wellFormed |-> FALSE, results |-> <<>>]

\* lines 94-103 pass without a throw
Stores(outcome) == outcome.success /\ outcome.wellFormed

\* the clients that search in the cache specifications
SearchClients == {BusyClient}

\* fetches issued in one behaviour
MaxProviderCalls == 2

\* searchQuery calls suspended at their fetch at one time
MaxInflight == 1

(***************************************************************************)
(* A cache at its capacity: the state after NFill searches of distinct     *)
(* queries at time 0, each answered with an empty result list.             *)
(***************************************************************************)
NFill == MAX_CACHE_SIZE

\* filler query n is the two-character numeral of n to the base 32
Numerals == <<"A","B","C","D","E","F","G","H","I","J","K","L","M","N","O","P",
              "Q","R","S","T","U","V","W","X","Y","Z","0","1","2","3","4","5">>

FillerQuery(n) == <<Numerals[((n \div 32) % 32) + 1], Numerals[(n % 32) + 1]>>

\* what the successful search of filler query n at time 0 stores
FillerKey(n) == cacheKeyOf(FillerQuery(n))

FillerEntry(n) ==
  NewEntry(FillerQuery(n), analyzeSemantics(FillerQuery(n)), BusyClient,
           FillerKey(n), <<>>, 0)

\* NFill distinct keys set in order; none is evicted, as NFill is the capacity
FilledCache == [n \in 1..NFill |-> [key |-> FillerKey(n), entry |-> FillerEntry(n)]]

\* two characters make no keyword (length > 2), so the fillers index nothing
FilledIndex == <<>>

\* the queries sent to the full cache: one of its keys and two new ones
EvictQueries == {FillerQuery(1), QLatestAINews, QAI}

\* the answers of the search API to the searches on the full cache
EvictOutcomes ==
  {[success |-> FALSE, wellFormed |-> TRUE, results |-> <<>>],
   [success |-> TRUE, wellFormed |-> TRUE, results |-> <<"r1">>]}

\* the queries sent to the API handler, and a question
QHowAI == <<"h","o","w"," ","A","I">>

QBestAI == <<"b","e","s","t"," ","A","I">>

QFindAI == <<"f","i","n","d"," ","A","I">>

ApiQueries == {QLatestAINews, QHowAI, QAI, QBestAI, QFindAI}

\* what semantic_search hands to searchQuery for them
EnhancedOf == [q \in ApiQueries |-> enhancedQuery(q)]

EnhancedQueries == {EnhancedOf[q] : q \in ApiQueries}

\* lines 74-75 for each query a client may send
KeyOfQuery == [q \in Queries \cup EvictQueries \cup ApiQueries \cup EnhancedQueries |-> cacheKeyOf(q)]

SemanticsOfQuery ==
  [q \in Queries \cup EvictQueries \cup ApiQueries \cup EnhancedQueries |-> analyzeSemantics(q)]

\* searchQuery(query, clientId) up to its first await or its return on a hit
SearchQueryStep(q, c, inflight) ==
  LET key == KeyOfQuery[q]
      semantics == SemanticsOfQuery[q]
  IN  /\ \/ /\ LookupHits(queryCache, key, now)
            /\ LET cached == CacheGet(queryCache, key)
               IN  lastSearch' = [kind |-> "search", source |-> "cache",
                                  query |-> cached.query, results |-> cached.results,
                                  timestamp |-> cached.timestamp,
                                  cacheAge |-> now - cached.timestamp,
                                  asked |-> q]
            /\ UNCHANGED <<pendingSearches, providerCalls>>
         \/ /\ ~LookupHits(queryCache, key, now)
            /\ providerCalls < MaxProviderCalls
            /\ Cardinality(pendingSearches) < inflight
            /\ providerCalls' = providerCalls + 1
            /\ pendingSearches' = pendingSearches \cup
                 {[id |-> providerCalls + 1, query |-> q, clientId |-> c,
                   cacheKey |-> key, semantics |-> semantics]}
            /\ lastSearch' = [kind |-> "search", source |-> "fetching", asked |-> q,
                              staleAge |-> IF CacheHas(queryCache, key)
                                           THEN now - CacheGet(queryCache, key).timestamp
                                           ELSE -1]
      /\ queryCache' = AfterLookup(queryCache, key, now)
      /\ UNCHANGED semanticIndex

\* a searchQuery call made on its own
SearchQuery(q, c) ==
  /\ SearchQueryStep(q, c, MaxInflight)
  /\ UNCHANGED <<clockVars, rateVars, orchVars, streamVars, apiVars, statsVars, analysisVars>>

\* the fetch of a suspended searchQuery settles; lines 92-149 run to the return
ProviderReplyStep(p, outcome) ==
  /\ pendingSearches' = pendingSearches \ {p}
  /\ IF ~Stores(outcome)
     THEN /\ lastSearch' = [kind |-> "search", source |-> "error", query |-> p.query,
                            results |-> <<>>, asked |-> p.query]
          /\ UNCHANGED <<queryCache, semanticIndex>>
     ELSE LET entry == NewEntry(p.query, p.semantics, p.clientId, p.cacheKey,
                                 outcome.results, now)
          IN  /\ queryCache' = StoreCache(queryCache, p.cacheKey, entry)
              /\ semanticIndex' = IndexAdd(semanticIndex, p.semantics.keywords, p.cacheKey)
              /\ lastSearch' = [kind |-> "search", source |-> "live", query |-> p.query,
                                results |-> entry.results, count |-> Len(entry.results),
                                timestamp |-> now, asked |-> p.query]
  /\ UNCHANGED providerCalls

ProviderReply(p, outcome) ==
  /\ ProviderReplyStep(p, outcome)
  /\ UNCHANGED <<clockVars, rateVars, orchVars, streamVars, apiVars, statsVars, analysisVars>>

\* the clock steps that put an entry's age just below, at and just above the TTL
CacheTickSteps == {CACHE_TTL - 1, CACHE_TTL, CACHE_TTL + 1}

TickCache ==
  /\ ticks < MaxTicks
  /\ \E d \in CacheTickSteps : now' = now + d
  /\ ticks' = ticks + 1
  /\ UNCHANGED <<rateVars, cacheVars, orchVars, streamVars, apiVars, statsVars, analysisVars>>

\* searches of one key in flight at one time, where they race
MaxRacers == 2

\* get_cached_results calls counted on one entry
MaxHits == 1

\* two spellings of one cache key
RaceQueries == {QLatestAINews, QLatestAINewsPadded}

RaceOutcomes == GoodOutcomes \cup {NoPayload}

\* searchQuery while other searches may be suspended at their fetches
RaceSearch(q, c) ==
  /\ SearchQueryStep(q, c, MaxRacers)
  /\ UNCHANGED <<clockVars, rateVars, orchVars, streamVars, apiVars, statsVars, analysisVars>>

\* an entry reported stale from the age at which a lookup stops serving it
IsStale_AtTTL(entry, t) == t - entry.timestamp >= CACHE_TTL

\* line 227: isStale: Date.now() - cached.timestamp > CACHE_TTL
IsStale(entry, t) == t - entry.timestamp > CACHE_TTL

\* get_cached_results, lines 214-229: cached.hitCount++ on the stored entry
GetCachedResults(q) ==
  LET key == KeyOfQuery[q]
  IN  /\ IF ~CacheHas(queryCache, key)
         THEN /\ lastSearch' = [kind |-> "cached", found |-> FALSE, asked |-> q]
              /\ UNCHANGED queryCache
         ELSE LET cached == CacheGet(queryCache, key)
              IN  /\ cached.hitCount < MaxHits
                  /\ queryCache' = CacheSet(queryCache, key,
                                            [cached EXCEPT !.hitCount = @ + 1])
                  /\ lastSearch' = [kind |-> "cached", found |-> TRUE, asked |-> q,
                                    hitCount |-> cached.hitCount + 1,
                                    age |-> now - cached.timestamp,
                                    isStale |-> IsStale(cached, now)]
      /\ UNCHANGED <<semanticIndex, pendingSearches, providerCalls>>
      /\ UNCHANGED <<clockVars, rateVars, orchVars, streamVars, apiVars, statsVars, analysisVars>>

RECURSIVE SumHits(_)
SumHits(cache) ==
  IF cache = <<>> THEN 0 ELSE Head(cache).entry.hitCount + SumHits(Tail(cache))

\* cache_status, lines 239-253: counts and sums read from the two maps
CacheStatus ==
  /\ lastSearch' = [kind |-> "status", cachedQueries |-> Len(queryCache),
                    semanticKeywords |-> Cardinality(DOMAIN semanticIndex),
                    totalCacheHits |-> SumHits(queryCache)]
  /\ UNCHANGED <<queryCache, semanticIndex, pendingSearches, providerCalls>>
  /\ UNCHANGED <<clockVars, rateVars, orchVars, streamVars, apiVars, statsVars, analysisVars>>

\* the clock passes the TTL
TickEvict ==
  /\ ticks < MaxTicks
  /\ now' = now + CACHE_TTL
  /\ ticks' = ticks + 1
  /\ UNCHANGED <<rateVars, cacheVars, orchVars, streamVars, apiVars, statsVars, analysisVars>>

(***************************************************************************)
(* Provider orchestrator (MCPOrchestrator)                                 *)
(***************************************************************************)
\* initializeServers(): the registry
servers ==
  [webSearchMCP |-> [name |-> "web-search-mcp", priority |-> 1],
   bubbleSearch |-> [name |-> "bubble-search", priority |-> 2]]

\* the server option of a request: the two registered names and one that is not
ServerOptions == {"webSearchMCP", "bubbleSearch", "tavily"}

\* executeSearch calls in one behaviour
MaxOrchRequests == 2

\* primaryServer === 'webSearchMCP' ? 'bubbleSearch' : 'webSearchMCP'
AlternativeOf(primaryServer) ==
  IF primaryServer = "webSearchMCP" THEN "bubbleSearch" ELSE "webSearchMCP"

\* the object executeSearch returns when the selected server answered
PrimaryResult(server, data) ==
  [success |-> TRUE, server |-> server, results |-> data]

\* a result that names the server the request selected
FallbackServerField_Selected(primaryServer) == primaryServer

\* the server named in fallbackSearch's result
FallbackServerField(primaryServer) == AlternativeOf(primaryServer)

\* the object fallbackSearch returns when the alternative answered
FallbackResult(primaryServer, data) ==
  [success |-> TRUE, server |-> FallbackServerField(primaryServer), results |-> data,
   failover |-> TRUE, primaryServerFailed |-> primaryServer]

\* the object fallbackSearch returns from its catch
FailureResult ==
  [success |-> FALSE, error |-> "All search servers unavailable"]

\* response.data of a POST to a server's /search: it tells who answered
ResponseOf(serverName) == [servedBy |-> serverName]

\* a fallbackSearch whose catch throws the error on: the caller's promise rejects
CatchFallback_Rethrows(r) == [r EXCEPT !.pc = "rejected"]

\* lines 138-144: the catch of fallbackSearch returns the failure object
CatchFallback(r) == [r EXCEPT !.pc = "done", !.result = FailureResult]

\* fallbackSearch(query, primaryServer) up to its await: the POST to the alternative
EnterFallback(r) ==
  [r EXCEPT !.pc = "fallback",
            !.posts = Append(@, AlternativeOf(r.server))]

\* a request that tries its selected server once more before it gives up on it
AfterPrimaryFailure_Retry(r) ==
  IF r.posts # <<>> /\ Len(r.posts) < 2 /\ r.server \in DOMAIN servers
  THEN [r EXCEPT !.pc = "primary", !.posts = Append(@, r.server)]
  ELSE EnterFallback(r)

\* what a request does after a failed probe or a failed primary call
AfterPrimaryFailure(r) == EnterFallback(r)

\* executeSearch(query, {server}) up to its first await
ExecuteSearch(server) ==
  /\ Len(orchRequests) < MaxOrchRequests
  /\ LET r == [server |-> server, pc |-> "probe", posts |-> <<>>, probes |-> 0,
               health |-> "none", result |-> NoResult]
     IN  orchRequests' = Append(orchRequests,
           IF server \in DOMAIN servers
           THEN [r EXCEPT !.probes = 1]
           ELSE EnterFallback(r))
  /\ UNCHANGED serverHealth
  /\ UNCHANGED <<clockVars, rateVars, cacheVars, streamVars, apiVars, statsVars, analysisVars>>

\* checkHealth(server) settles: axios.get answered, or threw or timed out
HealthReply(i, healthy) ==
  /\ orchRequests[i].pc = "probe"
  /\ LET r == orchRequests[i]
     IN  /\ serverHealth' =
              [n \in DOMAIN serverHealth \cup {r.server} |->
                 IF n = r.server
                 THEN [status |-> IF healthy THEN "healthy" ELSE "unhealthy",
                       timestamp |-> now]
                 ELSE serverHealth[n]]
         /\ orchRequests' = [orchRequests EXCEPT ![i] =
              IF healthy
              THEN [r EXCEPT !.health = "healthy", !.pc = "primary",
                             !.posts = Append(@, r.server)]
              ELSE AfterPrimaryFailure([r EXCEPT !.health = "unhealthy"])]
  /\ UNCHANGED <<clockVars, rateVars, cacheVars, streamVars, apiVars, statsVars, analysisVars>>

\* the POST to the selected server settles
PrimaryReply(i, ok) ==
  /\ orchRequests[i].pc = "primary"
  /\ LET r == orchRequests[i]
     IN  orchRequests' = [orchRequests EXCEPT ![i] =
           IF ok
           THEN [r EXCEPT !.pc = "done",
                          !.result = PrimaryResult(r.server, ResponseOf(r.server))]
           ELSE AfterPrimaryFailure(r)]
  /\ UNCHANGED serverHealth
  /\ UNCHANGED <<clockVars, rateVars, cacheVars, streamVars, apiVars, statsVars, analysisVars>>

\* the POST to the alternative server settles
FallbackReply(i, ok) ==
  /\ orchRequests[i].pc = "fallback"
  /\ LET r == orchRequests[i]
     IN  orchRequests' = [orchRequests EXCEPT ![i] =
           IF ok
           THEN [r EXCEPT !.pc = "done",
                          !.result = FallbackResult(r.server,
                                                    ResponseOf(AlternativeOf(r.server)))]
           ELSE CatchFallback(r)]
  /\ UNCHANGED serverHealth
  /\ UNCHANGED <<clockVars, rateVars, cacheVars, streamVars, apiVars, statsVars, analysisVars>>

NextOrch ==
  \/ \E server \in ServerOptions : ExecuteSearch(server)
  \/ \E i \in 1..Len(orchRequests), healthy \in BOOLEAN : HealthReply(i, healthy)
  \/ \E i \in 1..Len(orchRequests), ok \in BOOLEAN : PrimaryReply(i, ok)
  \/ \E i \in 1..Len(orchRequests), ok \in BOOLEAN : FallbackReply(i, ok)

InitOrch ==
  /\ serverHealth = <<>>
  /\ orchRequests = <<>>

(***************************************************************************)
(* Streaming (MCP streaming: createStream, streamChunk, closeStream,       *)
(* handleSSE, streamSearch)                                                *)
(***************************************************************************)
STAGGER_MS == 50

COMPLETE_DELAY_MS == 100

GRACE_MS == 300000

\* the clients that call streamSearch, each of them once
StreamClients == {BusyClient}

\* results of one upstream answer
MaxStreamResults == 2
\* SSE connections opened in one behaviour
MaxSubscribers == 2

\* deletions of one stream pending when the API closes it once more
MaxPendingDeletes == 1
\* the ids a request may name: those of the streams, and one never created
StreamIds == 1..(Cardinality(StreamClients) + 1)

StreamQuery == QAI

\* the stream object of createStream
NewStream(id, clientId, query, t) ==
  [id |-> id, clientId |-> clientId, query |-> query, created |-> t,
   chunks |-> <<>>, status |-> "active", listeners |-> <<>>,
   closeReason |-> "none"]

\* res.write of "event: <type>" and "data: <JSON of chunk.data>"
Frame(chunk) == [event |-> chunk.type, data |-> chunk.data]

\* a forEach that stops after the first listener
Deliver_FirstListener(subs, listeners, chunk) ==
  [k \in 1..Len(subs) |->
     IF listeners # <<>> /\ listeners[1] = k /\ subs[k].open
         THEN [subs[k] EXCEPT !.received = Append(@, Frame(chunk))]
         ELSE subs[k]]

\* a listener writes the chunk to its response; an ended response takes nothing
Deliver(subs, listeners, chunk) ==
  [k \in 1..Len(subs) |->
     IF (\E j \in 1..Len(listeners) : listeners[j] = k) /\ subs[k].open
         THEN [subs[k] EXCEPT !.received = Append(@, Frame(chunk))]
         ELSE subs[k]]

\* a buffer that takes the new chunk at its front
PushChunk_Unshift(chunks, chunk) == <<chunk>> \o chunks

\* line 40: stream.chunks.push(chunk)
PushChunk(chunks, chunk) == Append(chunks, chunk)

\* if (!stream) return false
ChunkAccepted(streams, id) == id \in DOMAIN streams

\* streamChunk(streamId, data, chunkType) at time t: the new registry, metrics and
\* connections, and the value returned
streamChunk(streams, metrics, subs, id, data, chunkType, t) ==
  IF ~ChunkAccepted(streams, id)
  THEN [streams |-> streams, metrics |-> metrics, subs |-> subs, ret |-> FALSE]
  ELSE LET chunk == [type |-> chunkType, data |-> data, timestamp |-> t]
       IN  [streams |-> [streams EXCEPT ![id].chunks = PushChunk(@, chunk)],
            metrics |-> [metrics EXCEPT !.chunksStreamed = @ + 1],
            subs    |-> Deliver(subs, streams[id].listeners, chunk),
            ret     |-> TRUE]

\* what a streamChunk call found and did (e is what it returned): kept in lastEmit
EmitRecord(streams, subs, e, id, chunkType) ==
  [kind |-> "emit", streamId |-> id, type |-> chunkType,
   found |-> id \in DOMAIN streams,
   status |-> IF id \in DOMAIN streams THEN streams[id].status ELSE "none",
   ret |-> e.ret,
   appended |-> /\ id \in DOMAIN streams
                /\ Len(e.streams[id].chunks) > Len(streams[id].chunks),
   notified |-> e.subs # subs]

\* a deletion that is due at once
DeleteTimer_NoGrace(id, t) == [kind |-> "delete", streamId |-> id, due |-> t]

\* line 62: setTimeout(() => activeStreams.delete(streamId), 300000)
DeleteTimer(id, t) == [kind |-> "delete", streamId |-> id, due |-> t + GRACE_MS]

\* a close that records the reason and leaves the status as it was
closeStream_LeavesOpen(streams, metrics, tm, id, reason, t) ==
  IF id \notin DOMAIN streams
  THEN [streams |-> streams, metrics |-> metrics, timers |-> tm, ret |-> FALSE]
  ELSE [streams |-> [streams EXCEPT ![id].closeReason = reason],
        metrics |-> [metrics EXCEPT !.active = @ - 1],
        timers  |-> Append(tm, DeleteTimer(id, t)),
        ret     |-> TRUE]

\* closeStream(streamId, reason) at time t: the new registry, metrics and timers
closeStream(streams, metrics, tm, id, reason, t) ==
  IF id \notin DOMAIN streams
  THEN [streams |-> streams, metrics |-> metrics, timers |-> tm, ret |-> FALSE]
  ELSE [streams |-> [streams EXCEPT ![id].status = "closed", ![id].closeReason = reason],
        metrics |-> [metrics EXCEPT !.active = @ - 1],
        timers  |-> Append(tm, DeleteTimer(id, t)),
        ret     |-> TRUE]

\* setTimeout(callback, delay) at time t for a callback of streamSearch
ResultTimer(id, index, n, t) ==
  [kind |-> "result", streamId |-> id, index |-> index, total |-> n,
   due |-> t + index * STAGGER_MS]

\* a completion timer that does not wait for the results
CompleteTimer_NoWait(id, n, t) ==
  [kind |-> "complete", streamId |-> id, total |-> n, due |-> t]

CompleteTimer(id, n, t) ==
  [kind |-> "complete", streamId |-> id, total |-> n,
   due |-> t + n * STAGGER_MS + COMPLETE_DELAY_MS]

\* a search that sets the result timers and no completion timer
SearchTimers_NoComplete(id, n, t) == [k \in 1..n |-> ResultTimer(id, k - 1, n, t)]

\* lines 140-159: one timer per result, then the completion timer
SearchTimers(id, n, t) ==
  [k \in 1..(n + 1) |->
     IF k <= n THEN ResultTimer(id, k - 1, n, t) ELSE CompleteTimer(id, n, t)]

\* the timer that runs next: the earliest due, the first set among equals
RunsNext(i) ==
  \A j \in 1..Len(timers) :
    \/ timers[i].due < timers[j].due
    \/ timers[i].due = timers[j].due /\ i <= j

WithoutTimer(tm, i) == [k \in 1..(Len(tm) - 1) |-> IF k < i THEN tm[k] ELSE tm[k + 1]]

LaterOf(a, b) == IF a > b THEN a ELSE b

\* streamSearch(query, clientId) up to its await: createStream, the metadata chunk
StreamSearch(c) ==
  /\ \A id \in DOMAIN streamFetches : streamFetches[id].clientId # c
  /\ LET id == streamMetrics.total + 1
         created == activeStreams @@ (id :> NewStream(id, c, StreamQuery, now))
         counted == [streamMetrics EXCEPT !.active = @ + 1, !.total = @ + 1]
         e == streamChunk(created, counted, subscribers, id,
                          [query |-> StreamQuery, streamId |-> id, clientId |-> c,
                           timestamp |-> now], "metadata", now)
     IN  /\ activeStreams' = e.streams
         /\ streamMetrics' = e.metrics
         /\ subscribers' = e.subs
         /\ lastEmit' = EmitRecord(created, subscribers, e, id, "metadata")
         /\ streamFetches' = streamFetches @@ (id :> [state |-> "pending", n |-> 0,
                                                      missed |-> FALSE,
                                                      clientId |-> c])
  /\ UNCHANGED <<timers, removedStreams>>
  /\ UNCHANGED <<clockVars, rateVars, cacheVars, orchVars, apiVars, statsVars, analysisVars>>

Pending(id) == id \in DOMAIN streamFetches /\ streamFetches[id].state = "pending"

\* a timer of streamSearch that runs when the registry no longer holds its stream
NoteRun(id) ==
  IF id \in DOMAIN activeStreams THEN streamFetches
  ELSE [streamFetches EXCEPT ![id].missed = TRUE]

\* the fetch of streamSearch answers success with n results: the timers are set
UpstreamResults(id, n) ==
  /\ Pending(id)
  /\ streamFetches' = [streamFetches EXCEPT ![id].state = "results", ![id].n = n]
  /\ timers' = timers \o SearchTimers(id, n, now)
  /\ UNCHANGED <<activeStreams, streamMetrics, subscribers, lastEmit, removedStreams>>
  /\ UNCHANGED <<clockVars, rateVars, cacheVars, orchVars, apiVars, statsVars, analysisVars>>

\* the fetch throws or answers success=false: the catch of streamSearch
UpstreamFails(id) ==
  /\ Pending(id)
  /\ streamFetches' = [NoteRun(id) EXCEPT ![id].state = "failed"]
  /\ UNCHANGED removedStreams
  /\ LET e == streamChunk(activeStreams, streamMetrics, subscribers, id,
                          [status |-> "error"], "error", now)
         c == closeStream(e.streams, e.metrics, timers, id, "error", now)
     IN  /\ activeStreams' = c.streams
         /\ streamMetrics' = c.metrics
         /\ timers' = c.timers
         /\ subscribers' = e.subs
         /\ lastEmit' = EmitRecord(activeStreams, subscribers, e, id, "error")
  /\ UNCHANGED <<clockVars, rateVars, cacheVars, orchVars, apiVars, statsVars, analysisVars>>

\* a result timer runs: streamChunk(streamId, {index, result, progress}, 'result')
FireResult(i) ==
  /\ i \in 1..Len(timers)
  /\ timers[i].kind = "result"
  /\ RunsNext(i)
  /\ LET tm == timers[i]
         t == LaterOf(now, tm.due)
         e == streamChunk(activeStreams, streamMetrics, subscribers, tm.streamId,
                          [index |-> tm.index, result |-> tm.index,
                           progress |-> <<tm.index + 1, tm.total>>], "result", t)
     IN  /\ now' = t
         /\ activeStreams' = e.streams
         /\ streamMetrics' = e.metrics
         /\ subscribers' = e.subs
         /\ lastEmit' = EmitRecord(activeStreams, subscribers, e, tm.streamId, "result")
         /\ timers' = WithoutTimer(timers, i)
         /\ streamFetches' = NoteRun(tm.streamId)
  /\ UNCHANGED <<ticks, removedStreams>>
  /\ UNCHANGED <<rateVars, cacheVars, orchVars, apiVars, statsVars, analysisVars>>

\* the completion timer runs: the complete chunk, then closeStream(id, 'complete');
\* reading .created of a stream no longer registered throws before either call
FireComplete(i) ==
  /\ i \in 1..Len(timers)
  /\ timers[i].kind = "complete"
  /\ RunsNext(i)
  /\ LET tm == timers[i]
         id == tm.streamId
         t == LaterOf(now, tm.due)
     IN  /\ now' = t
         /\ IF id \notin DOMAIN activeStreams
            THEN /\ timers' = WithoutTimer(timers, i)
                 /\ UNCHANGED <<activeStreams, streamMetrics, subscribers, lastEmit>>
            ELSE LET e == streamChunk(activeStreams, streamMetrics, subscribers, id,
                                      [status |-> "complete", totalResults |-> tm.total,
                                       duration |-> t - activeStreams[id].created],
                                      "complete", t)
                     c == closeStream(e.streams, e.metrics, WithoutTimer(timers, i),
                                      id, "complete", t)
                 IN  /\ activeStreams' = c.streams
                     /\ streamMetrics' = c.metrics
                     /\ timers' = c.timers
                     /\ subscribers' = e.subs
                     /\ lastEmit' = EmitRecord(activeStreams, subscribers, e, id,
                                                    "complete")
         /\ streamFetches' = NoteRun(id)
  /\ UNCHANGED <<ticks, removedStreams>>
  /\ UNCHANGED <<rateVars, cacheVars, orchVars, apiVars, statsVars, analysisVars>>

\* the grace period of a closed stream ends: activeStreams.delete(streamId)
FireDelete(i) ==
  /\ i \in 1..Len(timers)
  /\ timers[i].kind = "delete"
  /\ RunsNext(i)
  /\ now' = LaterOf(now, timers[i].due)
  /\ activeStreams' = [id \in DOMAIN activeStreams \ {timers[i].streamId} |->
                         activeStreams[id]]
  /\ removedStreams' =
       IF timers[i].streamId \in DOMAIN activeStreams
       THEN removedStreams @@ (timers[i].streamId :> activeStreams[timers[i].streamId])
       ELSE removedStreams
  /\ timers' = WithoutTimer(timers, i)
  /\ UNCHANGED <<ticks, streamMetrics, streamFetches, subscribers, lastEmit>>
  /\ UNCHANGED <<rateVars, cacheVars, orchVars, apiVars, statsVars, analysisVars>>

\* handleSSE(req, res, streamId): replay the buffer, then subscribe
Subscribe(id) ==
  /\ Len(subscribers) < MaxSubscribers
  /\ IF id \notin DOMAIN activeStreams
     THEN /\ subscribers' = Append(subscribers,
               [streamId |-> id, found |-> FALSE, open |-> FALSE, replayed |-> 0,
                received |-> <<[data |-> [error |-> "Stream not found"]]>>])
          /\ UNCHANGED activeStreams
     ELSE /\ subscribers' = Append(subscribers,
               [streamId |-> id, found |-> TRUE, open |-> TRUE,
                replayed |-> Len(activeStreams[id].chunks),
                received |-> [n \in 1..Len(activeStreams[id].chunks) |->
                                Frame(activeStreams[id].chunks[n])]])
          /\ activeStreams' = [activeStreams EXCEPT
               ![id].listeners = Append(@, Len(subscribers) + 1)]
  /\ UNCHANGED <<streamMetrics, streamFetches, removedStreams, timers, lastEmit>>
  /\ UNCHANGED <<clockVars, rateVars, cacheVars, orchVars, apiVars, statsVars, analysisVars>>

\* req.on('close'): closeStream(streamId, 'client_disconnect'); res.end()
Disconnect(k) ==
  /\ k \in 1..Len(subscribers)
  /\ subscribers[k].open
  /\ LET c == closeStream(activeStreams, streamMetrics, timers,
                          subscribers[k].streamId, "client_disconnect", now)
     IN  /\ activeStreams' = c.streams
         /\ streamMetrics' = c.metrics
         /\ timers' = c.timers
  /\ subscribers' = [subscribers EXCEPT ![k].open = FALSE]
  /\ UNCHANGED <<streamFetches, removedStreams, lastEmit>>
  /\ UNCHANGED <<clockVars, rateVars, cacheVars, orchVars, apiVars, statsVars, analysisVars>>

PendingDeletes(id) ==
  Cardinality({i \in 1..Len(timers) :
                 timers[i].kind = "delete" /\ timers[i].streamId = id})

\* the API's close action: closeStream(streamId), the reason defaults to 'complete'
ApiClose(id) ==
  /\ id \in DOMAIN activeStreams
  /\ PendingDeletes(id) < MaxPendingDeletes
  /\ LET c == closeStream(activeStreams, streamMetrics, timers, id, "complete", now)
     IN  /\ activeStreams' = c.streams
         /\ streamMetrics' = c.metrics
         /\ timers' = c.timers
  /\ UNCHANGED <<streamFetches, removedStreams, subscribers, lastEmit>>
  /\ UNCHANGED <<clockVars, rateVars, cacheVars, orchVars, apiVars, statsVars, analysisVars>>

NextStream ==
  \/ \E c \in StreamClients : StreamSearch(c)
  \/ \E id \in StreamIds, n \in 0..MaxStreamResults : UpstreamResults(id, n)
  \/ \E id \in StreamIds : UpstreamFails(id)
  \/ \E i \in 1..Len(timers) : FireResult(i)
  \/ \E i \in 1..Len(timers) : FireComplete(i)
  \/ \E i \in 1..Len(timers) : FireDelete(i)
  \/ \E id \in StreamIds : Subscribe(id)
  \/ \E k \in 1..Len(subscribers) : Disconnect(k)
  \/ \E id \in StreamIds : ApiClose(id)

(***************************************************************************)
(* The API handlers: api/mcp-server.js (MCP_TOOLS, module.exports) and     *)
(* api/mcp-search.js (MCP_SEARCH_TOOLS, module.exports)                    *)
(***************************************************************************)
\* requests taken in one behaviour
MaxApiRequests == 2

\* free slots of the busy client's window when the behaviour starts
ApiSlotsLeft == 1

\* req.body.input: with a query, or without one (input.query is undefined)
ApiInputs ==
  {[hasQuery |-> TRUE, query |-> q] : q \in ApiQueries} \cup {[hasQuery |-> FALSE, query |-> <<>>]}

\* a missing action and one that names no tool
InvalidActions == {"", "bogus"}

\* the search tools of api/mcp-search.js that call tavilySearch and nothing else
TavilyTools == {"web_search", "news_search"}

\* what the API does to the search API's answers
ApiOutcomes == EvictOutcomes

\* a request as the handler receives it; status 0: the handler has not answered yet
\* a response without a semanticAnalysis field
NoAnalysis == [keywords |-> <<>>, intent |-> "", category |-> "", raw |-> <<>>]

NewRequest(handler, action, c, input) ==
  [handler |-> handler, action |-> action, clientId |-> c,
   hasQuery |-> input.hasQuery, query |-> input.query,
   checked |-> FALSE, admitted |-> FALSE, remaining |-> -1, resetAt |-> -1,
   analysed |-> FALSE, lookedUp |-> FALSE, fetch |-> 0, posted |-> FALSE,
   semanticAnalysis |-> NoAnalysis, status |-> 0, error |-> ""]

\* the request after searchQuery(q) ran to its return on a hit or to its fetch
Searched(req, q) ==
  LET hit == LookupHits(queryCache, KeyOfQuery[q], now)
  IN  [req EXCEPT !.analysed = TRUE, !.lookedUp = TRUE,
                  !.fetch = IF hit THEN 0 ELSE providerCalls + 1,
                  !.status = IF hit THEN 200 ELSE 0]

\* a tool that takes every rate limiter answer for an admission
Denied_Never(result) == FALSE

\* line 167: if (!rateLimitResult.allowed)
Denied(result) == ~result.allowed

\* lines 267-272 of api/mcp-server.js, lines 105-110 of api/mcp-search.js
ApiInvalidAction(handler, a) ==
  /\ Len(apiRequests) < MaxApiRequests
  /\ \E input \in ApiInputs :
       apiRequests' = Append(apiRequests,
         [NewRequest(handler, a, BusyClient, input) EXCEPT !.status = 400,
                                                           !.error = "Invalid action"])
  /\ UNCHANGED <<tavilyKeySet, tavilyPosts, firecrawlKeySet, lastProvider>>
  /\ UNCHANGED <<clockVars, rateVars, cacheVars, orchVars, streamVars, statsVars, analysisVars>>

\* action web_search: lines 165-173 within the handler's try, up to the first await
ApiWebSearch(input, c) ==
  /\ Len(apiRequests) < MaxApiRequests
  /\ LET r == checkRateLimit(rateLimitTracker, c, now)
         req == [NewRequest("mcp-server", "web_search", c, input) EXCEPT
                   !.checked = TRUE, !.admitted = r.result.allowed,
                   !.remaining = r.result.remaining, !.resetAt = r.result.resetAt]
     IN  /\ rateLimitTracker' = r.tracker
         /\ lastRate' = r.result
         /\ IF Denied(r.result)
            THEN /\ apiRequests' = Append(apiRequests,
                      [req EXCEPT !.status = 200, !.error = "Rate limit exceeded"])
                 /\ UNCHANGED cacheVars
            ELSE IF ~input.hasQuery
            THEN \* line 74: undefined.toLowerCase() throws, the handler's catch answers
                 /\ apiRequests' = Append(apiRequests,
                      [req EXCEPT !.status = 500, !.error = "TypeError"])
                 /\ UNCHANGED cacheVars
            ELSE /\ SearchQueryStep(input.query, c, MaxInflight)
                 /\ apiRequests' = Append(apiRequests, Searched(req, input.query))
  /\ UNCHANGED <<tavilyKeySet, tavilyPosts, firecrawlKeySet, lastProvider>>
  /\ UNCHANGED <<clockVars, orchVars, streamVars, statsVars, analysisVars>>

\* action semantic_search: lines 186-201 within the handler's try, up to the first await
ApiSemanticSearch(input, c) ==
  /\ Len(apiRequests) < MaxApiRequests
  /\ LET req == NewRequest("mcp-server", "semantic_search", c, input)
     IN  IF ~input.hasQuery
         THEN \* line 40: undefined.toLowerCase() throws, the handler's catch answers
              /\ apiRequests' = Append(apiRequests,
                   [req EXCEPT !.status = 500, !.error = "TypeError"])
              /\ UNCHANGED cacheVars
         ELSE /\ SearchQueryStep(EnhancedOf[input.query], c, MaxInflight)
              /\ apiRequests' = Append(apiRequests,
                   [Searched(req, EnhancedOf[input.query]) EXCEPT
                      !.semanticAnalysis = SemanticsOfQuery[input.query]])
  /\ UNCHANGED <<tavilyKeySet, tavilyPosts, firecrawlKeySet, lastProvider>>
  /\ UNCHANGED <<clockVars, rateVars, orchVars, streamVars, statsVars, analysisVars>>

\* the fetch of a suspended tool settles: searchQuery returns, the handler answers 200
ApiProviderReply(p, outcome) ==
  /\ ProviderReplyStep(p, outcome)
  /\ apiRequests' =
       [i \in DOMAIN apiRequests |->
          IF apiRequests[i].fetch = p.id /\ apiRequests[i].status = 0
          THEN [apiRequests[i] EXCEPT !.status = 200,
                                      !.error = IF Stores(outcome) THEN "" ELSE "source error"]
          ELSE apiRequests[i]]
  /\ UNCHANGED <<tavilyKeySet, tavilyPosts, firecrawlKeySet, lastProvider>>
  /\ UNCHANGED <<clockVars, rateVars, orchVars, streamVars, statsVars, analysisVars>>

\* api/mcp-search.js, a tool that awaits tavilySearch(input.query, ...)
McpSearch(a, input) ==
  /\ Len(apiRequests) < MaxApiRequests
  /\ LET req == NewRequest("mcp-search", a, BusyClient, input)
     IN  IF ~tavilyKeySet
         THEN \* mockTavilyResults(query): success = true, no request leaves the process
              /\ apiRequests' = Append(apiRequests, [req EXCEPT !.status = 200])
              /\ UNCHANGED tavilyPosts
         ELSE \* axios.post('https://api.tavily.com/search', { query, ... })
              /\ apiRequests' = Append(apiRequests, [req EXCEPT !.posted = TRUE])
              /\ tavilyPosts' = tavilyPosts + 1
  /\ UNCHANGED <<tavilyKeySet, firecrawlKeySet, lastProvider>>
  /\ UNCHANGED <<clockVars, rateVars, cacheVars, orchVars, streamVars, statsVars, analysisVars>>

\* the POST settles; tavilySearch returns success or catches, the handler answers 200
TavilyReply(i, ok) ==
  /\ apiRequests[i].posted
  /\ apiRequests[i].status = 0
  /\ apiRequests' = [apiRequests EXCEPT ![i].status = 200,
                                        ![i].error = IF ok THEN "" ELSE "provider error"]
  /\ UNCHANGED <<tavilyKeySet, tavilyPosts, firecrawlKeySet, lastProvider>>
  /\ UNCHANGED <<clockVars, rateVars, cacheVars, orchVars, streamVars, statsVars, analysisVars>>

(***************************************************************************)
(* The search providers (search-providers.js: tavilySearch,                *)
(* firecrawlSearch, intelligentSearch, researchSearch)                     *)
(***************************************************************************)
\* results in one answer of api.tavily.com
MaxTavilyResults == 2

\* line 135: searchResults.results.slice(0, 3)
TOP_SCRAPED == 3

\* line 153: enrichedResults.slice(0, 10)
MAX_RETURNED == 10

\* a query holding a lone surrogate: encodeURIComponent throws URIError on it
QLoneSurrogate == <<"\\uD800">>

ProviderQueries == {QLatestAINews, QAI, QLoneSurrogate}

\* the POST to api.tavily.com resolves with n results or rejects
TavilyAnswers ==
  {[ok |-> TRUE, n |-> k] : k \in 0..MaxTavilyResults} \cup {[ok |-> FALSE, n |-> 0]}

\* firecrawlSearch of each scraped url: a content object (TRUE) or null (FALSE)
ScrapeAnswers == [1..MaxTavilyResults -> BOOLEAN]

\* a result as Tavily returns it, without the fields of a scrape
PlainResult(i) == [url |-> i, fullContent |-> "absent"]

TakeFirst(seq, n) == SubSeq(seq, 1, IF Len(seq) < n THEN Len(seq) ELSE n)

\* lines 102-118; encodeURIComponent(query) throws before the object is built
mockTavilyResults(q) ==
  IF q = QLoneSurrogate
  THEN [provider |-> "tavily", query |-> q, thrown |-> TRUE, success |-> FALSE,
        results |-> <<>>, error |-> "URIError", mocked |-> FALSE]
  ELSE [provider |-> "tavily", query |-> q, thrown |-> FALSE, success |-> TRUE,
        results |-> <<PlainResult(0)>>, error |-> "", mocked |-> TRUE]

\* lines 17-58: the mock without a key, else the POST's answer or the catch
tavilySearch(q, keySet, answer) ==
  IF ~keySet
  THEN mockTavilyResults(q)
  ELSE IF answer.ok
  THEN [provider |-> "tavily", query |-> q, thrown |-> FALSE, success |-> TRUE,
        results |-> [i \in 1..answer.n |-> PlainResult(i)], error |-> "",
        mocked |-> FALSE]
  ELSE [provider |-> "tavily", query |-> q, thrown |-> FALSE, success |-> FALSE,
        results |-> <<>>, error |-> "provider error", mocked |-> FALSE]

\* lines 121-168: what intelligentSearch returns once searchResults is known
intelligentSearch(q, includeContent, fireKeySet, searchResults, scrapes) ==
  IF searchResults.thrown
  THEN \* lines 158-166, the catch
       [provider |-> "intelligent", query |-> q, success |-> FALSE,
        error |-> searchResults.error, results |-> <<>>, sources |-> 0,
        deepResearch |-> FALSE]
  ELSE LET deep == includeContent /\ fireKeySet /\ Len(searchResults.results) > 0
           topResults == TakeFirst(searchResults.results, TOP_SCRAPED)
           enrichedResults ==
             IF deep
             THEN [i \in 1..Len(topResults) |->
                     [topResults[i] EXCEPT
                        !.fullContent = IF scrapes[i] THEN "content" ELSE "null"]]
             ELSE searchResults.results
       IN  [provider |-> "intelligent", query |-> q, success |-> TRUE, error |-> "",
            results |-> TakeFirst(enrichedResults, MAX_RETURNED),
            sources |-> Len(enrichedResults),
            deepResearch |-> includeContent /\ fireKeySet]

\* one intelligentSearch call from its start to its return; the module keeps no
\* state of its own, so the awaits of two calls have nothing to interleave on
IntelligentCall(tool, q, includeContent) ==
  /\ tavilyKeySet => tavilyPosts < MaxApiRequests
  /\ \E answer \in TavilyAnswers, scrapes \in ScrapeAnswers :
       LET searchResults == tavilySearch(q, tavilyKeySet, answer)
       IN  lastProvider' =
             [kind |-> "provider", tool |-> tool, includeContent |-> includeContent,
              tavily |-> searchResults,
              result |-> intelligentSearch(q, includeContent, firecrawlKeySet,
                                           searchResults, scrapes)]
  /\ tavilyPosts' = IF tavilyKeySet THEN tavilyPosts + 1 ELSE tavilyPosts
  /\ UNCHANGED <<apiRequests, tavilyKeySet, firecrawlKeySet>>

\* intelligentSearch(query, { includeContent })
IntelligentSearch(q, includeContent) ==
  /\ IntelligentCall("intelligent", q, includeContent)
  /\ UNCHANGED <<clockVars, rateVars, cacheVars, orchVars, streamVars, statsVars, analysisVars>>

\* lines 180-186: intelligentSearch with depth advanced and includeContent true
ResearchSearch(q) ==
  /\ IntelligentCall("research", q, TRUE)
  /\ UNCHANGED <<clockVars, rateVars, cacheVars, orchVars, streamVars, statsVars, analysisVars>>

(***************************************************************************)
(* The statistics tracker (api/index.js, StatsTracker)                     *)
(***************************************************************************)
\* if (searchStats.queries.length > 50)
MAX_RECENT == 50

\* recordSearch calls made before the behaviour starts
StatsPrefill == 49

\* recordSearch calls in one behaviour
MaxStatCalls == 3

\* the statistics object as the module creates it and as resetStats leaves it
FreshStats(t) ==
  [totalSearches |-> 0, successfulSearches |-> 0, failedSearches |-> 0,
   totalQueryCount |-> 0, searchDuration |-> <<>>, lastUpdated |-> t, queries |-> <<>>,
   serverStatus |-> [externalMCP |-> "unknown"], uptime |-> t]

\* (query || '').split(' ').length: one more than the number of single spaces
SplitLength(q) == Cardinality({i \in 1..Len(q) : q[i] = " "}) + 1

\* a buffer that gives up its newest record
DropOldest_Newest(queries) == SubSeq(queries, 1, Len(queries) - 1)

\* line 290: searchStats.queries.shift()
DropOldest(queries) == Tail(queries)

\* the record pushed at lines 281-287
StatRecord(query, success, duration, server, t) ==
  [query |-> query, success |-> success, duration |-> duration, timestamp |-> t,
   server |-> server]

\* recordSearch(query, success, duration, server) at time t
recordSearch(stats, query, success, duration, server, t) ==
  LET pushed == Append(stats.queries, StatRecord(query, success, duration, server, t))
  IN  [stats EXCEPT
         !.totalSearches = @ + 1,
         !.successfulSearches = IF success THEN @ + 1 ELSE @,
         !.failedSearches = IF success THEN @ ELSE @ + 1,
         !.totalQueryCount = @ + SplitLength(query),
         !.searchDuration = Append(@, duration),
         !.lastUpdated = t,
         !.queries = IF Len(pushed) > MAX_RECENT THEN DropOldest(pushed) ELSE pushed]

\* what testExternalMCP records: the query, how the POST ended, how long it took
StatQueries == {QAI, QLatestAINews}

StatDurations == {120, 30000}

RecordSearch(query, success, duration) ==
  /\ \/ Len(statCalls) < MaxStatCalls
     \/ Len(statCalls) >= StatsPrefill /\ Len(statCalls) < StatsPrefill + MaxStatCalls
  /\ searchStats' = recordSearch(searchStats, query, success, duration, "external-mcp", now)
  /\ statCalls' = Append(statCalls, StatRecord(query, success, duration, "external-mcp", now))
  /\ UNCHANGED lastAnalysis
  /\ UNCHANGED <<clockVars, rateVars, cacheVars, orchVars, streamVars, apiVars>>

\* updateServerStatus('external-mcp', status)
UpdateServerStatus(status) ==
  /\ searchStats' = [searchStats EXCEPT !.serverStatus.externalMCP = status]
  /\ UNCHANGED <<statCalls, lastAnalysis>>
  /\ UNCHANGED <<clockVars, rateVars, cacheVars, orchVars, streamVars, apiVars>>

\* resetStats(): a new statistics object
ResetStats ==
  /\ searchStats' = FreshStats(now)
  /\ statCalls' = <<>>
  /\ UNCHANGED lastAnalysis
  /\ UNCHANGED <<clockVars, rateVars, cacheVars, orchVars, streamVars, apiVars>>

\* the n-th of the calls made before the behaviour starts: a success of n ms
PrefillCall(n) == StatRecord(QAI, TRUE, n, "external-mcp", 0)

InitStats ==
  /\ searchStats = FreshStats(0)
  /\ statCalls = <<>>

\* the statistics after StatsPrefill recordSearch calls at time 0
InitStatsBusy ==
  /\ searchStats =
       [FreshStats(0) EXCEPT
          !.totalSearches = StatsPrefill,
          !.successfulSearches = StatsPrefill,
          !.totalQueryCount = StatsPrefill * SplitLength(QAI),
          !.searchDuration = [n \in 1..StatsPrefill |-> n],
          !.queries = [n \in 1..StatsPrefill |-> PrefillCall(n)]]
  /\ statCalls = [n \in 1..StatsPrefill |-> PrefillCall(n)]

InitAnalysis == lastAnalysis = NoResult

(***************************************************************************)
(* Semantic analysis on its own: analyzeSemantics is applied to queries    *)
(* made of a few words joined by a blank or by the two characters \s.      *)
(***************************************************************************)
MaxWords == 2

AnalysisWords ==
  {<<"L","a","t","e","s","t">>, <<"A","I">>, <<"N","e","w","s">>, <<"h","o","w">>,
   <<"b","e","s","t">>, <<"c","o","d","e">>, <<"f","i","n","d">>}

AnalysisSeparators == {<<" ">>, <<"\\","s">>}

RECURSIVE Phrases(_)
Phrases(n) ==
  IF n = 1 THEN AnalysisWords
  ELSE {p \o sep \o w : p \in Phrases(n - 1), sep \in AnalysisSeparators, w \in AnalysisWords}

AnalysisQueries ==
  {<<>>, QLatestAINews} \cup UNION {Phrases(n) : n \in 1..MaxWords}

\* what analyzeSemantics returns for each of these queries
AnalysisOf == [q \in AnalysisQueries |-> analyzeSemantics(q)]

\* a call of analyzeSemantics(query)
Analyze(q) ==
  /\ lastAnalysis' = [kind |-> "analysis", semantics |-> AnalysisOf[q]]
  /\ UNCHANGED <<clockVars, rateVars, cacheVars, orchVars, streamVars, apiVars, statsVars>>

InitRate ==
  /\ rateLimitTracker = <<>>
  /\ lastRate = NoResult

InitCache ==
  /\ queryCache = <<>>
  /\ semanticIndex = <<>>
  /\ pendingSearches = {}
  /\ providerCalls = 0
  /\ lastSearch = NoResult

InitStream ==
  /\ activeStreams = <<>>
  /\ streamMetrics = [active |-> 0, total |-> 0, chunksStreamed |-> 0]
  /\ streamFetches = <<>>
  /\ removedStreams = <<>>
  /\ timers = <<>>
  /\ subscribers = <<>>
  /\ lastEmit = NoResult

\* no request taken yet; the Tavily key plays no part outside api/mcp-search.js
InitApi ==
  /\ apiRequests = <<>>
  /\ tavilyKeySet = FALSE
  /\ tavilyPosts = 0
  /\ firecrawlKeySet = FALSE
  /\ lastProvider = NoResult

Init ==
  /\ now = 0
  /\ ticks = 0
  /\ InitRate
  /\ InitCache
  /\ InitOrch
  /\ InitStream
  /\ InitApi
  /\ InitStats
  /\ InitAnalysis

NextRate ==
  \/ \E c \in ClientIds : CheckRateLimit(c)
  \/ TickRate

SpecRate == Init /\ [][NextRate]_vars

NextCache ==
  \/ \E q \in Queries, c \in SearchClients : SearchQuery(q, c)
  \/ \E p \in pendingSearches, o \in FailedOutcomes \cup GoodOutcomes : ProviderReply(p, o)
  \/ TickCache

SpecCache == Init /\ [][NextCache]_vars

InitEvict ==
  /\ now = 0
  /\ ticks = 0
  /\ InitRate
  /\ InitOrch
  /\ InitStream
  /\ InitApi
  /\ InitStats
  /\ InitAnalysis
  /\ queryCache = FilledCache
  /\ semanticIndex = FilledIndex
  /\ pendingSearches = {}
  /\ providerCalls = 0
  /\ lastSearch = NoResult

NextEvict ==
  \/ \E q \in EvictQueries, c \in SearchClients : SearchQuery(q, c)
  \/ \E p \in pendingSearches, o \in EvictOutcomes : ProviderReply(p, o)
  \/ TickEvict

SpecEvict == InitEvict /\ [][NextEvict]_vars

SpecOrch == Init /\ [][NextOrch]_vars

SpecStream == Init /\ [][NextStream]_vars

\* the awaited fetch of streamSearch for stream id resolves or rejects
UpstreamSettles(id) ==
  \/ \E n \in 0..MaxStreamResults : UpstreamResults(id, n)
  \/ UpstreamFails(id)

\* the event loop runs the timer that is due next
FireTimer ==
  \E i \in 1..Len(timers) : FireResult(i) \/ FireComplete(i) \/ FireDelete(i)

\* the streaming module while its process lives: every pending fetch settles and
\* every timer set by setTimeout runs
\* SSE connections opened while the searches run to their end
LiveSubscribers == 1

NextStreamLive ==
  \/ \E c \in StreamClients : StreamSearch(c)
  \/ \E id \in StreamIds : UpstreamSettles(id)
  \/ FireTimer
  \/ \E id \in StreamIds : Len(subscribers) < LiveSubscribers /\ Subscribe(id)
  \/ \E k \in 1..Len(subscribers) : Disconnect(k)
  \/ \E id \in StreamIds : ApiClose(id)

SpecStreamLive ==
  /\ Init
  /\ [][NextStreamLive]_vars
  /\ \A id \in StreamIds : WF_vars(UpstreamSettles(id))
  /\ WF_vars(FireTimer)

\* the busy client has used all but ApiSlotsLeft slots at time 0, by web_search
\* requests without a query: each takes a slot and touches nothing else
InitApiBusy ==
  /\ now = 0
  /\ ticks = 0
  /\ rateLimitTracker = (BusyClient :> [n \in 1..(RATE_LIMIT - ApiSlotsLeft) |-> 0])
  /\ lastRate = NoResult
  /\ InitCache
  /\ InitOrch
  /\ InitStream
  /\ InitApi
  /\ InitStats
  /\ InitAnalysis

NextApi ==
  \/ \E input \in ApiInputs : ApiWebSearch(input, BusyClient)
  \/ \E input \in ApiInputs : ApiSemanticSearch(input, BusyClient)
  \/ \E a \in InvalidActions : ApiInvalidAction("mcp-server", a)
  \/ \E p \in pendingSearches, o \in ApiOutcomes : ApiProviderReply(p, o)

NextRace ==
  \/ \E q \in RaceQueries : RaceSearch(q, BusyClient)
  \/ \E p \in pendingSearches, o \in RaceOutcomes : ProviderReply(p, o)
  \/ \E q \in RaceQueries : GetCachedResults(q)
  \/ TickEvict

SpecRace == Init /\ [][NextRace]_vars

\* cached lookups of entries whose age is just below, at and just above the TTL
NextStale ==
  \/ \E q \in RaceQueries : RaceSearch(q, BusyClient)
  \/ \E p \in pendingSearches, o \in RaceOutcomes : ProviderReply(p, o)
  \/ \E q \in RaceQueries : GetCachedResults(q)
  \/ TickCache

SpecStale == Init /\ [][NextStale]_vars

\* the tools of the server side by side: searches, cached lookups, status, rate checks
QuietClient == "bob"

NextTools ==
  \/ \E q \in RaceQueries : RaceSearch(q, BusyClient)
  \/ \E p \in pendingSearches, o \in RaceOutcomes : ProviderReply(p, o)
  \/ \E q \in RaceQueries : GetCachedResults(q)
  \/ CacheStatus
  \/ CheckRateLimit(QuietClient)
  \/ TickEvict

SpecTools == Init /\ [][NextTools]_vars

InitStatsSpec ==
  /\ now = 0
  /\ ticks = 0
  /\ InitRate
  /\ InitCache
  /\ InitOrch
  /\ InitStream
  /\ InitApi
  /\ InitStatsBusy
  /\ InitAnalysis

NextStats ==
  \/ \E q \in StatQueries, ok \in BOOLEAN, d \in StatDurations : RecordSearch(q, ok, d)
  \/ \E status \in {"healthy", "unhealthy"} : UpdateServerStatus(status)
  \/ ResetStats

SpecStats == InitStatsSpec /\ [][NextStats]_vars

NextAnalyze == \E q \in AnalysisQueries : Analyze(q)

SpecAnalyze == Init /\ [][NextAnalyze]_vars

\* the calls that leave the process: the orchestrator's and searchQuery's
BoundaryOutcomes == FailedOutcomes \cup {NoPayload} \cup EvictOutcomes

NextBoundary ==
  \/ NextOrch
  \/ SearchQuery(QAI, BusyClient)
  \/ \E p \in pendingSearches, o \in BoundaryOutcomes : ProviderReply(p, o)

SpecBoundary == Init /\ [][NextBoundary]_vars

SpecApi == InitApiBusy /\ [][NextApi]_vars

InitMcpSearch ==
  /\ now = 0
  /\ ticks = 0
  /\ InitRate
  /\ InitCache
  /\ InitOrch
  /\ InitStream
  /\ apiRequests = <<>>
  /\ tavilyKeySet \in BOOLEAN
  /\ tavilyPosts = 0
  /\ firecrawlKeySet = FALSE
  /\ lastProvider = NoResult
  /\ InitStats
  /\ InitAnalysis

NextMcpSearch ==
  \/ \E a \in TavilyTools, input \in ApiInputs : McpSearch(a, input)
  \/ \E i \in 1..Len(apiRequests), ok \in BOOLEAN : TavilyReply(i, ok)
  \/ \E a \in InvalidActions : ApiInvalidAction("mcp-search", a)

SpecMcpSearch == InitMcpSearch /\ [][NextMcpSearch]_vars

\* either key may be set in the environment the providers run in
InitProviders ==
  /\ now = 0
  /\ ticks = 0
  /\ InitRate
  /\ InitCache
  /\ InitOrch
  /\ InitStream
  /\ apiRequests = <<>>
  /\ tavilyKeySet \in BOOLEAN
  /\ tavilyPosts = 0
  /\ firecrawlKeySet \in BOOLEAN
  /\ lastProvider = NoResult
  /\ InitStats
  /\ InitAnalysis

NextProviders ==
  \/ \E q \in ProviderQueries, includeContent \in BOOLEAN : IntelligentSearch(q, includeContent)
  \/ \E q \in ProviderQueries : ResearchSearch(q)

SpecProviders == InitProviders /\ [][NextProviders]_vars

(***************************************************************************)
(* C1: with quota 100 and a 600,000 ms window, a checkRateLimit call is    *)
(* admitted when fewer than 100 earlier admissions of the client lie in    *)
(* the trailing window (so the 100th is accepted) and denied when 100 do   *)
(* (the 101st); right after the call the client's window holds at most     *)
(* 100 timestamps, none of them older than now - 600,000 ms.               *)
(***************************************************************************)
AdmittedInWindow(c) ==
  LET w == WindowOf(rateLimitTracker, c)
  IN  Cardinality({i \in 1..Len(w) : now - w[i] < RATE_WINDOW})

C1_Post(c) ==
  LET k == AdmittedInWindow(c)
      w == rateLimitTracker'[c]
  IN  /\ k < RATE_LIMIT => lastRate'.allowed
      /\ k >= RATE_LIMIT => ~lastRate'.allowed
      /\ Len(w) <= RATE_LIMIT
      /\ \A i \in 1..Len(w) : w[i] > now - RATE_WINDOW

C1_RateLimit == [][\A c \in ClientIds : CheckRateLimit(c) => C1_Post(c)]_vars

\* the 101st request of a window that spans two instants has just been denied
C1_Witness ==
  /\ lastRate.kind = "rate"
  /\ lastRate.clientId = BusyClient
  /\ ~lastRate.allowed
  /\ LET w == WindowOf(rateLimitTracker, BusyClient)
     IN  /\ Len(w) = RATE_LIMIT
         /\ w[1] < w[RATE_LIMIT]
         /\ w[RATE_LIMIT] = now


(***************************************************************************)
(* C2: two raw queries whose lower-cased, trimmed forms are equal share    *)
(* one cache entry: the cache never holds two entries for one such form,   *)
(* and a search under q2 while the entry stored for q1 is younger than the *)
(* TTL is a hit that returns the results stored for q1 and calls no        *)
(* provider.                                                               *)
(***************************************************************************)
\* trim(lowercase(q)) by positions: the span from the first to the last
\* character that is not white space, each letter folded to lower case
InkPositions(q) == {i \in 1..Len(q) : q[i] \notin {" ", "\t", "\n", "\r"}}

NormalForm(q) ==
  IF InkPositions(q) = {} THEN <<>>
  ELSE LET first == CHOOSE i \in InkPositions(q) : \A j \in InkPositions(q) : i <= j
           last == CHOOSE i \in InkPositions(q) : \A j \in InkPositions(q) : i >= j
       IN  [i \in 1..(last - first + 1) |-> ToLowerChar(q[first + i - 1])]

NormalFormOf == [q \in Queries |-> NormalForm(q)]

C2_OneEntryPerForm ==
  \A i, j \in 1..Len(queryCache) :
    NormalFormOf[queryCache[i].entry.query] = NormalFormOf[queryCache[j].entry.query]
      => i = j

C2_HitOnShared(q2) ==
  \A i \in 1..Len(queryCache) :
    LET e == queryCache[i].entry
    IN  NormalFormOf[e.query] = NormalFormOf[q2] /\ now - e.timestamp < CACHE_TTL
          => /\ lastSearch'.source = "cache"
             /\ lastSearch'.query = e.query
             /\ lastSearch'.results = e.results
             /\ lastSearch'.timestamp = e.timestamp
             /\ providerCalls' = providerCalls
             /\ queryCache' = queryCache

C2_SharedEntry ==
  /\ []C2_OneEntryPerForm
  /\ [][\A q2 \in Queries, c \in SearchClients :
          SearchQuery(q2, c) => C2_HitOnShared(q2)]_vars

\* "latest ai news " has just been answered from the entry of "Latest AI News"
C2_Witness ==
  /\ lastSearch.kind = "search"
  /\ lastSearch.source = "cache"
  /\ lastSearch.asked = QLatestAINewsPadded
  /\ lastSearch.query = QLatestAINews
  /\ Len(lastSearch.results) = 2
  /\ Cardinality({i \in 1..Len(queryCache) :
                    NormalFormOf[queryCache[i].entry.query] = NormalFormOf[QLatestAINews]}) = 1

(***************************************************************************)
(* C3: with a TTL of 300000 ms a lookup that finds an entry is a hit       *)
(* exactly when now - entry.timestamp < TTL: at age 299999 it is a hit,    *)
(* at age 300000 or 300001 it is a miss that goes on to the live search.   *)
(***************************************************************************)
C3_Post(q) ==
  \A i \in 1..Len(queryCache) :
    queryCache[i].key = KeyOfQuery[q] =>
      LET age == now - queryCache[i].entry.timestamp
      IN  /\ (lastSearch'.source = "cache") <=> (age < 300000)
          /\ age = 299999 => lastSearch'.source = "cache" /\ providerCalls' = providerCalls
          /\ age \in {300000, 300001} =>
               /\ lastSearch'.source = "fetching"
               /\ providerCalls' = providerCalls + 1
               /\ \E p \in pendingSearches' \ pendingSearches : p.query = q

C3_TtlBoundary ==
  [][\A q \in Queries, c \in SearchClients : SearchQuery(q, c) => C3_Post(q)]_vars

\* a lookup has just missed on an entry whose age is exactly the TTL
C3_Witness ==
  /\ lastSearch.kind = "search"
  /\ lastSearch.source = "fetching"
  /\ lastSearch.staleAge = 300000
  /\ \E p \in pendingSearches : p.query = lastSearch.asked

(***************************************************************************)
(* C5: searchQuery calls the provider if and only if the lookup misses (no *)
(* entry under the key, or an expired one).  A hit returns the stored      *)
(* results with source "cache" and changes neither the cache nor the       *)
(* semantic index; a successful provider answer stores the entry and       *)
(* returns source "live"; a failed one stores nothing.                     *)
(***************************************************************************)
C5_Misses(q) ==
  \A i \in 1..Len(queryCache) :
    queryCache[i].key = KeyOfQuery[q] => now - queryCache[i].entry.timestamp >= CACHE_TTL

C5_LookupPost(q) ==
  /\ C5_Misses(q) <=> providerCalls' = providerCalls + 1
  /\ ~C5_Misses(q) <=> providerCalls' = providerCalls
  /\ ~C5_Misses(q) =>
       /\ lastSearch'.source = "cache"
       /\ \E i \in 1..Len(queryCache) :
            /\ queryCache[i].key = KeyOfQuery[q]
            /\ lastSearch'.results = queryCache[i].entry.results
       /\ pendingSearches' = pendingSearches
  /\ queryCache' = queryCache
  /\ semanticIndex' = semanticIndex

C5_ReplyPost(p, outcome) ==
  /\ providerCalls' = providerCalls
  /\ ~(outcome.success /\ outcome.wellFormed) =>
       /\ queryCache' = queryCache
       /\ semanticIndex' = semanticIndex
       /\ lastSearch'.source = "error"
       /\ lastSearch'.results = <<>>
  /\ outcome.success /\ outcome.wellFormed =>
       /\ lastSearch'.source = "live"
       /\ Len(lastSearch'.results) = Len(outcome.results)
       /\ \E i \in 1..Len(queryCache') :
            /\ queryCache'[i].key = p.cacheKey
            /\ queryCache'[i].entry.query = p.query
            /\ queryCache'[i].entry.results = lastSearch'.results
            /\ queryCache'[i].entry.timestamp = now
       /\ \A n \in 1..Len(p.semantics.keywords) :
            LET keyword == p.semantics.keywords[n]
            IN  /\ keyword \in DOMAIN semanticIndex'
                /\ \E m \in 1..Len(semanticIndex'[keyword]) :
                     semanticIndex'[keyword][m] = p.cacheKey

C5_ProviderIffMiss ==
  /\ [][\A q \in Queries, c \in SearchClients : SearchQuery(q, c) => C5_LookupPost(q)]_vars
  /\ [][\A p \in pendingSearches, outcome \in GoodOutcomes \cup FailedOutcomes :
          ProviderReply(p, outcome) => C5_ReplyPost(p, outcome)]_vars

\* a miss on an expired entry was followed by a failed fetch: the expired entry
\* is still the one stored, and nothing was added
C5_Witness ==
  /\ lastSearch.kind = "search"
  /\ lastSearch.source = "error"
  /\ providerCalls = 2
  /\ Len(queryCache) = 1
  /\ now - queryCache[1].entry.timestamp >= CACHE_TTL
  /\ queryCache[1].key = KeyOfQuery[lastSearch.asked]

(***************************************************************************)
(* C4: the cache never holds more than 1000 entries, and whenever a store  *)
(* evicts an entry, that entry has the smallest creation timestamp of all  *)
(* the entries present at that moment.                                     *)
(***************************************************************************)
KeysOf(cache) == {cache[i].key : i \in 1..Len(cache)}

\* the timestamp, at the moment of the eviction, of the entry under key k
C4_StampOf(k, p) ==
  IF k = p.cacheKey THEN now
  ELSE queryCache[CHOOSE i \in 1..Len(queryCache) : queryCache[i].key = k].entry.timestamp

C4_Evicts(p) ==
  \A k \in (KeysOf(queryCache) \cup {p.cacheKey}) \ KeysOf(queryCache') :
    \A j \in 1..Len(queryCache') :
      C4_StampOf(k, p) <= queryCache'[j].entry.timestamp

C4_Capacity ==
  /\ [](Len(queryCache) <= 1000)
  /\ [][\A p \in pendingSearches, outcome \in EvictOutcomes :
          ProviderReply(p, outcome) /\ outcome.success => C4_Evicts(p)]_vars

\* the first inserted key was stored again after the TTL, and the next new key
\* evicted the second inserted one, older than the first
C4_Witness ==
  /\ Len(queryCache) = 1000
  /\ FillerKey(1) \in KeysOf(queryCache)
  /\ FillerKey(2) \notin KeysOf(queryCache)
  /\ queryCache[1].entry.timestamp > 0

(***************************************************************************)
(* C6: a successful executeSearch result names in its server field the     *)
(* server whose /search call produced the results, and carries             *)
(* failover = true exactly when that server is the alternative; with the   *)
(* selected server probed unhealthy and the alternative answering, the     *)
(* result has failover = true and names the alternative.                   *)
(***************************************************************************)
HasFailover(result) == "failover" \in DOMAIN result /\ result.failover

C6_NamesActualServer ==
  \A i \in 1..Len(orchRequests) :
    LET r == orchRequests[i]
    IN  r.pc = "done" /\ r.result.success =>
          /\ r.posts # <<>>
          /\ r.result.server = r.posts[Len(r.posts)]
          /\ r.result.server = r.result.results.servedBy
          /\ HasFailover(r.result) <=> r.result.results.servedBy = AlternativeOf(r.server)
          /\ r.health = "unhealthy" =>
               HasFailover(r.result) /\ r.result.server = AlternativeOf(r.server)

\* webSearchMCP was probed unhealthy and bubbleSearch answered
C6_Witness ==
  \E i \in 1..Len(orchRequests) :
    LET r == orchRequests[i]
    IN  /\ r.server = "webSearchMCP"
        /\ r.health = "unhealthy"
        /\ r.pc = "done"
        /\ r.result.success
        /\ r.result.failover
        /\ r.result.server = "bubbleSearch"
        /\ r.result.results.servedBy = "bubbleSearch"

(***************************************************************************)
(* C7: one executeSearch request makes at most one /search call to its     *)
(* selected server and at most one to the alternative.  After an unhealthy *)
(* probe or a failed call to the selected server exactly one call goes to  *)
(* the alternative; when that call fails too the result is success = false *)
(* and the request makes no further call.                                  *)
(***************************************************************************)
CallsTo(r, name) == Cardinality({n \in 1..Len(r.posts) : r.posts[n] = name})

C7_CallCounts ==
  \A i \in 1..Len(orchRequests) :
    LET r == orchRequests[i]
        alt == AlternativeOf(r.server)
    IN  /\ CallsTo(r, r.server) <= 1
        /\ CallsTo(r, alt) <= 1
        /\ \A n \in 1..Len(r.posts) : r.posts[n] \in {r.server, alt}
        /\ r.health = "unhealthy" => r.posts = <<alt>>
        /\ r.pc = "fallback" => CallsTo(r, alt) = 1 /\ r.posts[Len(r.posts)] = alt
        /\ r.pc = "done" /\ ~r.result.success =>
             CallsTo(r, alt) = 1 /\ r.posts[Len(r.posts)] = alt

C7_Steps ==
  \A i \in 1..Len(orchRequests) :
    LET r == orchRequests[i]
        after == orchRequests'[i]
        alt == AlternativeOf(r.server)
    IN  /\ PrimaryReply(i, FALSE) =>
             after.pc = "fallback" /\ after.posts = Append(r.posts, alt)
        /\ HealthReply(i, FALSE) =>
             after.pc = "fallback" /\ after.posts = <<alt>>
        /\ FallbackReply(i, FALSE) =>
             after.pc = "done" /\ ~after.result.success /\ after.posts = r.posts
        /\ r.pc = "done" => after = r

C7_OneFailover == []C7_CallCounts /\ [][C7_Steps]_vars

\* the selected server was healthy, its call failed, and so did the alternative's
C7_Witness ==
  \E i \in 1..Len(orchRequests) :
    LET r == orchRequests[i]
    IN  /\ r.pc = "done"
        /\ ~r.result.success
        /\ r.health = "healthy"
        /\ r.posts = <<"bubbleSearch", "webSearchMCP">>

(***************************************************************************)
(* C8: replay, then live.  A connection attached to a stream has received  *)
(* exactly the stream's chunks, in the order of the buffer: those buffered *)
(* when it attached at once, each later one as it is emitted, none         *)
(* missing, twice or out of order.                                         *)
(***************************************************************************)
FramesOf(chunks) == [n \in 1..Len(chunks) |-> Frame(chunks[n])]

C8_InStep ==
  \A k \in 1..Len(subscribers) :
    LET sub == subscribers[k]
    IN  sub.found /\ sub.open /\ sub.streamId \in DOMAIN activeStreams =>
          /\ sub.received = FramesOf(activeStreams[sub.streamId].chunks)
          /\ sub.replayed <= Len(sub.received)

C8_Grows ==
  \A k \in 1..Len(subscribers) :
    LET before == subscribers[k].received
        after == subscribers'[k].received
    IN  /\ Len(after) \in {Len(before), Len(before) + 1}
        /\ SubSeq(after, 1, Len(before)) = before

C8_ReplayThenLive == []C8_InStep /\ [][C8_Grows]_vars

\* a connection attached after the second of four chunks has them all, in order
C8_Witness ==
  \E k \in 1..Len(subscribers) :
    LET sub == subscribers[k]
    IN  /\ sub.found /\ sub.open
        /\ sub.replayed = 2
        /\ Len(sub.received) = 4
        /\ sub.received[1].event = "metadata"
        /\ \A n \in 2..3 : sub.received[n].event = "result"
                            /\ sub.received[n].data.index = n - 2
        /\ sub.received[4].event = "complete"

(***************************************************************************)
(* C9: for a streamSearch whose upstream call succeeds with n results and  *)
(* whose client does not disconnect, the chunk buffer ends as one metadata *)
(* chunk, n result chunks with index 0..n-1 in order (progress (i+1)/n)    *)
(* and one complete chunk with totalResults = n; the stream is then closed *)
(* with reason complete and nothing follows the complete chunk.            *)
(* C9_SearchProtocol states it for the streams the registry still held     *)
(* whenever a timer of the search ran; C9_AsWritten states it for all.     *)
(***************************************************************************)
\* the stream as the registry holds it, or as it was when the registry dropped it
StreamOf(id) ==
  IF id \in DOMAIN activeStreams THEN activeStreams[id] ELSE removedStreams[id]

SearchTimersPending(id) ==
  \E i \in 1..Len(timers) :
    timers[i].streamId = id /\ timers[i].kind \in {"result", "complete"}

ClientDisconnected(id) ==
  \E k \in 1..Len(subscribers) :
    subscribers[k].streamId = id /\ subscribers[k].found /\ ~subscribers[k].open

\* the search of stream id succeeded with results, ran all its timers, no disconnect
SearchEnded(id) ==
  /\ id \in DOMAIN streamFetches
  /\ streamFetches[id].state = "results"
  /\ ~SearchTimersPending(id)
  /\ ~ClientDisconnected(id)

ProtocolBuffer(stream, n) ==
  /\ Len(stream.chunks) = n + 2
  /\ stream.chunks[1].type = "metadata"
  /\ \A i \in 1..n :
       /\ stream.chunks[i + 1].type = "result"
       /\ stream.chunks[i + 1].data.index = i - 1
       /\ stream.chunks[i + 1].data.progress = <<i, n>>
  /\ stream.chunks[n + 2].type = "complete"
  /\ stream.chunks[n + 2].data.totalResults = n
  /\ stream.status = "closed"
  /\ stream.closeReason = "complete"

C10_EmitRefusesClosed ==
  lastEmit.kind = "emit" =>
    /\ ~lastEmit.found \/ lastEmit.status = "closed" =>
         ~lastEmit.ret /\ ~lastEmit.appended /\ ~lastEmit.notified
    /\ lastEmit.ret => lastEmit.found /\ lastEmit.status = "active"

(***************************************************************************)
(* C11: after a subscriber's transport disconnects the stream is closed    *)
(* with reason client_disconnect, and from then on no chunk is appended to *)
(* the stream's buffer or delivered to any listener, even when result and  *)
(* complete emissions were scheduled before the disconnect.                *)
(***************************************************************************)
C11_ClosedByDisconnect ==
  \A k \in 1..Len(subscribers) :
    Disconnect(k) /\ subscribers[k].streamId \in DOMAIN activeStreams =>
      /\ activeStreams'[subscribers[k].streamId].status = "closed"
      /\ activeStreams'[subscribers[k].streamId].closeReason = "client_disconnect"

C11_Silent ==
  \A id \in DOMAIN activeStreams \cap DOMAIN activeStreams' :
    ClientDisconnected(id) =>
      /\ activeStreams'[id].chunks = activeStreams[id].chunks
      /\ \A k \in 1..Len(subscribers) :
           subscribers[k].streamId = id =>
             subscribers'[k].received = subscribers[k].received

C11_NoChunkAfterDisconnect == [][C11_ClosedByDisconnect /\ C11_Silent]_vars

(***************************************************************************)
(* C12: when the upstream call of streamSearch throws or answers           *)
(* success = false, the stream's buffer is exactly [metadata, error], with *)
(* no result and no complete chunk then or later, and the stream is closed *)
(* with reason error.  C12_ErrorProtocol states it for the streams the     *)
(* registry still held when the call failed; C12_AsWritten for all.        *)
(***************************************************************************)
ErrorBuffer(stream) ==
  /\ Len(stream.chunks) = 2
  /\ stream.chunks[1].type = "metadata"
  /\ stream.chunks[2].type = "error"
  /\ stream.status = "closed"

C12_FailStep ==
  \A id \in DOMAIN activeStreams :
    UpstreamFails(id) =>
      ErrorBuffer(activeStreams'[id]) /\ activeStreams'[id].closeReason = "error"

C12_Failed(id) == streamFetches[id].state = "failed"

C12_ErrorProtocol ==
  /\ [](\A id \in DOMAIN streamFetches :
          C12_Failed(id) /\ ~streamFetches[id].missed => ErrorBuffer(StreamOf(id)))
  /\ [][C12_FailStep]_vars

C12_AsWritten ==
  \A id \in DOMAIN streamFetches : C12_Failed(id) => ErrorBuffer(StreamOf(id))

\* the failed search's stream was closed once more and then dropped by the registry:
\* its buffer was [metadata, error] to the end
C12_Witness ==
  \E id \in DOMAIN removedStreams :
    /\ C12_Failed(id)
    /\ ~streamFetches[id].missed
    /\ ErrorBuffer(removedStreams[id])
    /\ \E k \in 1..Len(subscribers) :
         /\ subscribers[k].streamId = id
         /\ Len(subscribers[k].received) = 2
         /\ subscribers[k].received[2].event = "error"

(***************************************************************************)
(* C16: checkRateLimit first prunes the client's window, then, if capacity *)
(* remains, appends now and returns allowed = true with remaining = quota  *)
(* minus the window length after the append; otherwise it returns          *)
(* allowed = false, remaining = 0 and resetAt = the oldest timestamp still *)
(* in the window + 600,000 ms.  C16_AsWritten prunes the timestamps older  *)
(* than now - 600,000 ms (t < now - 600,000); C16_PruneThenAdmit prunes    *)
(* those not newer than it (t <= now - 600,000).                           *)
(***************************************************************************)
\* the timestamps of w that are not below least, in order
KeptFrom(w, least) == SelectSeq(w, LAMBDA t : t >= least)

C16_Post(c, kept) ==
  LET res == lastRate'
      after == rateLimitTracker'[c]
  IN  IF Len(kept) < RATE_LIMIT
      THEN /\ res.allowed
           /\ after = Append(kept, now)
           /\ res.remaining = RATE_LIMIT - Len(after)
      ELSE /\ ~res.allowed
           /\ res.remaining = 0
           /\ res.resetAt = kept[1] + RATE_WINDOW
           /\ after = kept

C16_PruneThenAdmit ==
  [][\A c \in ClientIds :
       CheckRateLimit(c) =>
         C16_Post(c, KeptFrom(WindowOf(rateLimitTracker, c), now - RATE_WINDOW + 1))]_vars

C16_AsWritten ==
  [][\A c \in ClientIds :
       CheckRateLimit(c) =>
         C16_Post(c, KeptFrom(WindowOf(rateLimitTracker, c), now - RATE_WINDOW))]_vars

\* a full window whose oldest timestamp is 599,999 ms old has just denied a request
C16_Witness ==
  /\ lastRate.kind = "rate"
  /\ ~lastRate.allowed
  /\ lastRate.remaining = 0
  /\ now = RATE_WINDOW - 1
  /\ lastRate.resetAt = RATE_WINDOW
  /\ Len(WindowOf(rateLimitTracker, lastRate.clientId)) = RATE_LIMIT

(***************************************************************************)
(* C13: when checkRateLimit denies a web_search request, the tool returns  *)
(* the rate-limit error with remaining = 0 and resetAt, and performs no    *)
(* cache lookup, no provider call, no cache or semantic-index write and no *)
(* automatic retry.                                                        *)
(***************************************************************************)
\* the client's window holds RATE_LIMIT timestamps newer than now - RATE_WINDOW
C13_WindowFull(c) ==
  Cardinality({i \in 1..Len(WindowOf(rateLimitTracker, c)) :
                 WindowOf(rateLimitTracker, c)[i] > now - RATE_WINDOW}) >= RATE_LIMIT

C13_DeniedAnswer(req) ==
  /\ req.error = "Rate limit exceeded"
  /\ req.remaining = 0
  /\ req.resetAt >= 0
  /\ req.status = 200
  /\ req.fetch = 0
  /\ ~req.lookedUp

C13_DeniedStep ==
  \A input \in ApiInputs :
    ApiWebSearch(input, BusyClient) /\ C13_WindowFull(BusyClient) =>
      /\ C13_DeniedAnswer(apiRequests'[Len(apiRequests')])
      /\ apiRequests'[Len(apiRequests')].resetAt =
           WindowOf(rateLimitTracker', BusyClient)[1] + RATE_WINDOW
      /\ UNCHANGED <<queryCache, semanticIndex, pendingSearches, providerCalls, lastSearch>>

\* a denied request is answered once and for all: nothing is pending for it later
C13_DeniedStays ==
  \A i \in 1..Len(apiRequests) :
    apiRequests[i].checked /\ ~apiRequests[i].admitted => C13_DeniedAnswer(apiRequests[i])

C13_DeniedTouchesNothing == []C13_DeniedStays /\ [][C13_DeniedStep]_vars

\* a web_search with a query was denied while the cache did not hold its key
C13_Witness ==
  \E i \in 1..Len(apiRequests) :
    /\ apiRequests[i].action = "web_search"
    /\ apiRequests[i].hasQuery
    /\ apiRequests[i].checked
    /\ ~apiRequests[i].admitted
    /\ apiRequests[i].error = "Rate limit exceeded"
    /\ apiRequests[i].resetAt = RATE_WINDOW
    /\ ~CacheHas(queryCache, KeyOfQuery[apiRequests[i].query])
    /\ providerCalls = 0

(***************************************************************************)
(* C14: every search request, web_search or semantic_search, is first      *)
(* checked by the rate limiter for its clientId: no semantic analysis      *)
(* result is used, no cache lookup is done and no provider call is made    *)
(* for a request that checkRateLimit did not admit in that same request.   *)
(***************************************************************************)
C14_CheckedBeforeSearch ==
  \A i \in 1..Len(apiRequests) :
    LET req == apiRequests[i]
    IN  req.analysed \/ req.lookedUp \/ req.fetch # 0 => req.checked /\ req.admitted

(***************************************************************************)
(* C15: admission is atomic per clientId: with exactly one slot remaining  *)
(* in a client's window, two concurrently handled requests of that client  *)
(* cannot both be admitted, under any interleaving of the request          *)
(* handlers, handlers suspended at their provider calls included.          *)
(***************************************************************************)
\* the requests of client c the limiter admitted since the behaviour began
C15_Admitted(c) ==
  {i \in 1..Len(apiRequests) : apiRequests[i].clientId = c /\ apiRequests[i].admitted}

\* the clock stands still here, so the slots free at the start are all there are
C15_NoDoubleAdmission ==
  \A c \in SearchClients :
    /\ Cardinality(C15_Admitted(c)) <= ApiSlotsLeft
    /\ Len(WindowOf(rateLimitTracker, c)) =
         RATE_LIMIT - ApiSlotsLeft + Cardinality(C15_Admitted(c))

\* the last slot went to a request still suspended at its fetch when the same
\* client's next request was checked and denied
C15_Witness ==
  /\ ApiSlotsLeft = 1
  /\ \E i, j \in 1..Len(apiRequests) :
       /\ i < j
       /\ apiRequests[i].clientId = apiRequests[j].clientId
       /\ apiRequests[i].admitted
       /\ apiRequests[i].status = 0
       /\ apiRequests[i].fetch # 0
       /\ apiRequests[j].checked
       /\ ~apiRequests[j].admitted

(***************************************************************************)
(* C18: a request with a missing or unknown action, or a search request    *)
(* with a missing query, is answered immediately with an error response    *)
(* and no provider call is attempted for it.                               *)
(***************************************************************************)
C18_InvalidInput(req) == req.action \in InvalidActions \/ ~req.hasQuery

C18_InvalidRejected ==
  \A i \in 1..Len(apiRequests) :
    C18_InvalidInput(apiRequests[i]) =>
      /\ apiRequests[i].status # 0
      /\ apiRequests[i].status \in {400, 500} \/ apiRequests[i].error # ""
      /\ ~apiRequests[i].posted
      /\ apiRequests[i].fetch = 0

(***************************************************************************)
(* C17: failures inside provider calls never raise past the orchestration  *)
(* boundary: for every outcome of the health probe and of the provider     *)
(* calls (network error, timeout, payload with success=false),             *)
(* executeSearch and searchQuery resolve to a structured failure result    *)
(* (success=false, respectively source='error' with empty results) and     *)
(* never throw or reject.                                                  *)
(***************************************************************************)
\* an executeSearch call is waiting for a call it made, or has resolved
C17_OrchSettles ==
  \A i \in 1..Len(orchRequests) :
    LET r == orchRequests[i]
    IN  /\ r.pc \in {"probe", "primary", "fallback", "done"}
        /\ r.pc = "done" =>
             \/ r.result.success
             \/ r.result = [success |-> FALSE, error |-> "All search servers unavailable"]

\* a failed probe or primary call leads to the alternative; its failure to the
\* failure object
C17_OrchStep ==
  \A i \in 1..Len(orchRequests) :
    /\ HealthReply(i, FALSE) \/ PrimaryReply(i, FALSE) =>
         orchRequests'[i].pc = "fallback"
    /\ FallbackReply(i, FALSE) =>
         /\ orchRequests'[i].pc = "done"
         /\ ~orchRequests'[i].result.success

\* the outcomes of the fetch that are a failure: no payload, success=false, or
\* results the mapping throws on
C17_Fails(outcome) == ~outcome.success \/ ~outcome.wellFormed

C17_SearchStep ==
  \A p \in pendingSearches, o \in BoundaryOutcomes :
    ProviderReply(p, o) /\ C17_Fails(o) =>
      /\ lastSearch'.source = "error"
      /\ lastSearch'.results = <<>>
      /\ lastSearch'.query = p.query
      /\ p \notin pendingSearches'
      /\ UNCHANGED <<queryCache, semanticIndex>>

C19_Written(p, pl, t) ==
  [query |-> p.query, results |-> mapResults(KeyOfQuery[p.query], pl), timestamp |-> t,
   semantics |-> SemanticsOfQuery[p.query], clientId |-> p.clientId, hitCount |-> 0]

C19_Core(entry) == [entry EXCEPT !.hitCount = 0]

\* every field of an entry fits the one query whose store wrote it
C19_Whole ==
  \A i \in 1..Len(queryCache) :
    LET e == queryCache[i].entry
    IN  /\ e.query \in DOMAIN KeyOfQuery
        /\ KeyOfQuery[e.query] = queryCache[i].key
        /\ e.semantics = SemanticsOfQuery[e.query]
        /\ \A n \in 1..Len(e.results) : e.results[n].id = <<queryCache[i].key, n - 1>>

\* a store replaces the entry by its own, whatever was there and whoever waits
C19_StoreStep ==
  \A p \in pendingSearches, o \in RaceOutcomes :
    ProviderReply(p, o) =>
      IF o.success /\ o.wellFormed
      THEN CacheGet(queryCache', p.cacheKey) = C19_Written(p, o.results, now)
      ELSE UNCHANGED queryCache

\* between stores an entry keeps every field but hitCount
C19_BetweenStores ==
  \A i \in 1..Len(queryCache) :
    (\A p \in pendingSearches : p.cacheKey = queryCache[i].key => p \in pendingSearches') =>
      /\ CacheHas(queryCache', queryCache[i].key)
      /\ C19_Core(CacheGet(queryCache', queryCache[i].key)) = C19_Core(queryCache[i].entry)

C19_LastWriterWins == []C19_Whole /\ [][C19_StoreStep /\ C19_BetweenStores]_vars

\* no time has passed, so the second fetch left before the first store; both
\* spellings have stored (each indexed the key), and the entry is the last store's
C19_Witness ==
  /\ ticks = 0
  /\ pendingSearches = {}
  /\ \A q \in RaceQueries :
       /\ toLowerCase(q) \in DOMAIN semanticIndex
       /\ semanticIndex[toLowerCase(q)] = <<KeyOfQuery[q]>>
  /\ lastSearch.kind = "search"
  /\ lastSearch.source = "live"
  /\ CacheHas(queryCache, KeyOfQuery[QLatestAINews])
  /\ CacheGet(queryCache, KeyOfQuery[QLatestAINews]).query = lastSearch.query
  /\ CacheGet(queryCache, KeyOfQuery[QLatestAINews]).results = lastSearch.results
  /\ lastSearch.query = QLatestAINewsPadded

(***************************************************************************)
(* C20: within one stream the chunk buffer is append-only, and each        *)
(* streamChunk call delivers the new chunk to every currently registered   *)
(* listener, in subscription order, before it returns; hence every         *)
(* subscriber observes chunks in exactly buffer order under any            *)
(* interleaving of emits and subscriptions.                                *)
(***************************************************************************)
\* a registered stream's buffer only grows at its end
C20_AppendOnly ==
  \A id \in DOMAIN activeStreams \cap DOMAIN activeStreams' :
    LET before == activeStreams[id].chunks
        after == activeStreams'[id].chunks
    IN  /\ Len(after) >= Len(before)
        /\ SubSeq(after, 1, Len(before)) = before

\* the step that appends a chunk hands it to every listener registered then; a
\* listener whose response has not ended has it as its last frame
C20_DeliveredInCall ==
  \A id \in DOMAIN activeStreams \cap DOMAIN activeStreams' :
    LET before == activeStreams[id].chunks
        after == activeStreams'[id].chunks
        listeners == activeStreams[id].listeners
    IN  Len(after) > Len(before) =>
          /\ activeStreams'[id].listeners = listeners
          /\ \A j \in 1..Len(listeners) :
               subscribers[listeners[j]].open =>
                 subscribers'[listeners[j]].received =
                   Append(subscribers[listeners[j]].received, Frame(after[Len(after)]))

\* the listeners array, which forEach walks from its start, holds the stream's
\* connections in the order they subscribed
C20_SubscriptionOrder ==
  \A id \in DOMAIN activeStreams :
    LET listeners == activeStreams[id].listeners
    IN  /\ \A j \in 1..Len(listeners) :
             /\ listeners[j] \in 1..Len(subscribers)
             /\ subscribers[listeners[j]].streamId = id
             /\ subscribers[listeners[j]].found
        /\ \A j1, j2 \in 1..Len(listeners) : j1 < j2 => listeners[j1] < listeners[j2]
        /\ \A k \in 1..Len(subscribers) :
             subscribers[k].streamId = id /\ subscribers[k].found =>
               \E j \in 1..Len(listeners) : listeners[j] = k

C20_BufferOrder ==
  []C20_SubscriptionOrder /\ [][C20_AppendOnly /\ C20_DeliveredInCall]_vars

\* two connections subscribed to one stream at different buffer lengths, and a
\* chunk emitted after both reached both
C20_Witness ==
  \E id \in DOMAIN activeStreams :
    /\ activeStreams[id].listeners = <<1, 2>>
    /\ subscribers[1].open /\ subscribers[2].open
    /\ subscribers[1].replayed < subscribers[2].replayed
    /\ subscribers[2].replayed < Len(activeStreams[id].chunks)
    /\ subscribers[1].received = subscribers[2].received
    /\ Len(subscribers[2].received) = Len(activeStreams[id].chunks)
    /\ lastEmit.kind = "emit"
    /\ lastEmit.notified

(***************************************************************************)
(* C21: closeStream sets the stream's status to closed and records the     *)
(* reason; the closed stream with all its buffered chunks stays            *)
(* retrievable (get, subscribe replay) during the whole 5-minute grace     *)
(* period and is removed from the registry only when the grace-period      *)
(* timer fires; a stream that is still active is never removed from the    *)
(* registry.                                                               *)
(***************************************************************************)
C21_DeleteTimersOf(tm, id) ==
  {i \in 1..Len(tm) : tm[i].kind = "delete" /\ tm[i].streamId = id}

\* the step that closes an active stream records a reason and sets the timer that
\* is due one grace period later; the API's close records the default reason
C21_CloseStep ==
  /\ \A id \in DOMAIN activeStreams \cap DOMAIN activeStreams' :
       activeStreams[id].status = "active" /\ activeStreams'[id].status = "closed" =>
         /\ activeStreams'[id].closeReason \in {"complete", "error", "client_disconnect"}
         /\ \E i \in C21_DeleteTimersOf(timers', id) : timers'[i].due = now' + GRACE_MS
  /\ \A id \in StreamIds :
       ApiClose(id) => /\ activeStreams'[id].status = "closed"
                       /\ activeStreams'[id].closeReason = "complete"
                       /\ activeStreams'[id].chunks = activeStreams[id].chunks

\* a registered closed stream waits for a timer that is not yet past due; an active
\* one has no deletion pending; a closed stream never becomes active again
C21_Retained ==
  \A id \in DOMAIN activeStreams :
    IF activeStreams[id].status = "closed"
    THEN \E i \in C21_DeleteTimersOf(timers, id) : now <= timers[i].due
    ELSE /\ activeStreams[id].status = "active"
         /\ C21_DeleteTimersOf(timers, id) = {}

\* a stream leaves the registry only when a deletion timer of it fires, closed, a
\* grace period after a close, with the buffer it had
C21_RemovedByTimer ==
  \A id \in DOMAIN activeStreams \ DOMAIN activeStreams' :
    /\ activeStreams[id].status = "closed"
    /\ \E i \in C21_DeleteTimersOf(timers, id) : FireDelete(i) /\ now' = timers[i].due
    /\ now' >= GRACE_MS
    /\ removedStreams'[id] = activeStreams[id]

\* handleSSE on a closed stream still registered replays its whole buffer
C21_Replays ==
  \A id \in DOMAIN activeStreams :
    Subscribe(id) /\ activeStreams[id].status = "closed" =>
      LET sub == subscribers'[Len(subscribers')]
      IN  /\ sub.found
          /\ Len(sub.received) = Len(activeStreams[id].chunks)
          /\ \A n \in 1..Len(sub.received) :
               sub.received[n].event = activeStreams[id].chunks[n].type

C21_GracePeriod ==
  []C21_Retained /\ [][C21_CloseStep /\ C21_RemovedByTimer /\ C21_Replays]_vars

\* a connection opened after the stream completed got the whole buffer, and the
\* registry dropped the stream one grace period after the close
C21_Witness ==
  \E id \in DOMAIN removedStreams :
    LET stream == removedStreams[id]
    IN  /\ stream.status = "closed"
        /\ stream.closeReason = "complete"
        /\ stream.chunks[Len(stream.chunks)].type = "complete"
        /\ now >= stream.chunks[Len(stream.chunks)].timestamp + GRACE_MS
        /\ \E k \in 1..Len(subscribers) :
             /\ subscribers[k].streamId = id
             /\ subscribers[k].found
             /\ subscribers[k].replayed = Len(stream.chunks)

(***************************************************************************)
(* C22: after any sequence of StatsTracker.recordSearch calls, the         *)
(* recent-queries buffer holds at most 50 records and they are exactly the *)
(* most recent min(50, n) recorded searches in call order (the oldest is   *)
(* dropped first), while totalSearches equals the number of calls and      *)
(* equals successfulSearches + failedSearches.                             *)
(***************************************************************************)
C22_Kept == IF Len(statCalls) < 50 THEN Len(statCalls) ELSE 50

C22_RecentBuffer ==
  /\ Len(searchStats.queries) <= 50
  /\ Len(searchStats.queries) = C22_Kept
  /\ \A k \in 1..C22_Kept :
       searchStats.queries[k] = statCalls[Len(statCalls) - C22_Kept + k]
  /\ searchStats.totalSearches = Len(statCalls)
  /\ searchStats.totalSearches =
       searchStats.successfulSearches + searchStats.failedSearches
  /\ searchStats.successfulSearches =
       Cardinality({k \in 1..Len(statCalls) : statCalls[k].success})

\* 52 calls, failures among them: the two oldest records are gone
C22_Witness ==
  /\ Len(statCalls) = 52
  /\ Len(searchStats.queries) = 50
  /\ searchStats.queries[1].duration = 3
  /\ searchStats.failedSearches > 0
  /\ ~searchStats.queries[50].success

(***************************************************************************)
(* C23: analyzeSemantics extracts keywords by lowercasing the query,       *)
(* splitting it on whitespace and discarding every token of length <= 2:   *)
(* the keyword list equals exactly the whitespace-separated lowercase      *)
(* tokens of length >= 3, in order ("Latest AI News" yields                *)
(* ["latest", "news"]).                                                    *)
(***************************************************************************)
\* the maximal runs of characters that are not white space, in order
RECURSIVE C23_TokensFrom(_, _, _)
C23_TokensFrom(q, i, piece) ==
  LET done == IF piece = <<>> THEN <<>> ELSE <<piece>>
  IN  IF i > Len(q) THEN done
      ELSE IF IsSpace(q[i]) THEN done \o C23_TokensFrom(q, i + 1, <<>>)
      ELSE C23_TokensFrom(q, i + 1, Append(piece, q[i]))

C23_Tokens(q) == C23_TokensFrom(q, 1, <<>>)

C23_WhitespaceKeywords ==
  lastAnalysis.kind = "analysis" =>
    lastAnalysis.semantics.keywords =
      SelectSeq(C23_Tokens(toLowerCase(lastAnalysis.semantics.raw)), LongEnough)

(***************************************************************************)
(* C24: detectIntent is first-match-wins over the ordered rules question,  *)
(* search, current, ranking: the result is the first rule in that order    *)
(* whose pattern occurs in the lowercased query, and general when none     *)
(* occurs; a query matching several rules always gets the earliest one.    *)
(***************************************************************************)
C24_Rules ==
  <<[intent |-> "question", words |-> QuestionWords],
    [intent |-> "search", words |-> SearchWords],
    [intent |-> "current", words |-> CurrentWords],
    [intent |-> "ranking", words |-> RankingWords]>>

C24_Occurs(n, q) == MatchesAny(toLowerCase(q), C24_Rules[n].words)

C24_FirstMatchWins ==
  lastAnalysis.kind = "analysis" =>
    LET q == lastAnalysis.semantics.raw
        intent == lastAnalysis.semantics.intent
    IN  /\ \A n \in 1..Len(C24_Rules) :
             (C24_Occurs(n, q) /\ \A m \in 1..(n - 1) : ~C24_Occurs(m, q))
               => intent = C24_Rules[n].intent
        /\ (\A n \in 1..Len(C24_Rules) : ~C24_Occurs(n, q)) => intent = "general"

\* "find Latest" and the like: the search and the current rule both match
C24_Witness ==
  /\ lastAnalysis.kind = "analysis"
  /\ C24_Occurs(2, lastAnalysis.semantics.raw)
  /\ C24_Occurs(3, lastAnalysis.semantics.raw)
  /\ ~C24_Occurs(1, lastAnalysis.semantics.raw)
  /\ lastAnalysis.semantics.intent = "search"

(***************************************************************************)
(* C25: category detection returns the first category in table order       *)
(* (tech, ai, business, news, gaming) whose word list shares at least one  *)
(* word with the query's keywords, and general when no category overlaps;  *)
(* the empty query yields an empty keyword set, intent general and         *)
(* category general.                                                       *)
(***************************************************************************)
C25_TableOrder == <<"tech", "ai", "business", "news", "gaming">>

C25_Shares(n, keywords) ==
  \E k \in 1..Len(keywords) : keywords[k] \in categories[n].words

C26_Suffix ==
  [question |-> <<" ","t","u","t","o","r","i","a","l"," ","g","u","i","d","e">>,
   current |-> <<" ","2","0","2","5"," ","l","a","t","e","s","t">>,
   ranking |-> <<" ","b","e","s","t"," ","c","o","m","p","a","r","i","s","o","n">>,
   search |-> <<>>,
   general |-> <<>>]

\* for each query sent to the tool: the query it has to search for, the key of that
\* query and the analysis of the query as it came
C26_Extended == [q \in ApiQueries |-> q \o C26_Suffix[detectIntent(q)]]

C26_KeyOf == [q \in ApiQueries |-> cacheKeyOf(C26_Extended[q])]

C26_AnalysisOf == [q \in ApiQueries |-> analyzeSemantics(q)]

\* a semantic_search call with a query got as far as its searchQuery call
C26_SemanticStep ==
  /\ Len(apiRequests') = Len(apiRequests) + 1
  /\ apiRequests'[Len(apiRequests')].action = "semantic_search"
  /\ apiRequests'[Len(apiRequests')].hasQuery

C26_SearchesExtended ==
  C26_SemanticStep =>
    LET req == apiRequests'[Len(apiRequests')]
    IN  /\ lastSearch'.kind = "search"
        /\ lastSearch'.asked = C26_Extended[req.query]
        /\ req.semanticAnalysis = C26_AnalysisOf[req.query]
        /\ req.fetch # 0 =>
             \E p \in pendingSearches' \ pendingSearches :
               /\ p.id = req.fetch
               /\ p.query = C26_Extended[req.query]
               /\ p.cacheKey = C26_KeyOf[req.query]
        /\ req.fetch = 0 =>
             /\ CacheHas(queryCache, C26_KeyOf[req.query])
             /\ lastSearch'.query = CacheGet(queryCache, C26_KeyOf[req.query]).query

\* the fetch of a semantic_search call brings results: they are cached under the extended query
C26_CachesExtended ==
  \A i \in DOMAIN apiRequests :
    (/\ apiRequests[i].action = "semantic_search"
     /\ apiRequests[i].status = 0
     /\ apiRequests'[i].status = 200
     /\ apiRequests'[i].error = "")
      => /\ CacheHas(queryCache', C26_KeyOf[apiRequests[i].query])
         /\ CacheGet(queryCache', C26_KeyOf[apiRequests[i].query]).query =
              C26_Extended[apiRequests[i].query]
         /\ CacheGet(queryCache', C26_KeyOf[apiRequests[i].query]).timestamp = now
         /\ apiRequests'[i].semanticAnalysis = C26_AnalysisOf[apiRequests[i].query]

C27_StoreStep ==
  /\ \E p \in pendingSearches : p \notin pendingSearches'
  /\ lastSearch'.kind = "search"
  /\ lastSearch'.source = "live"

C27_StoredKey == KeyOfQuery[lastSearch'.asked]

\* the positions of the cache, in insertion order, whose pair of key and entry is as before
C27_Same ==
  {i \in 1..Len(queryCache) : i <= Len(queryCache') /\ queryCache'[i] = queryCache[i]}

\* an entry goes only in a store: replaced in its place by the store of its key, or
\* deleted, alone, by the store of a new key that made the cache larger than its capacity
C27_OnlyStoreRemoves ==
  queryCache' # queryCache =>
    /\ C27_StoreStep
    /\ IF CacheHas(queryCache, C27_StoredKey)
       THEN /\ Len(queryCache') = Len(queryCache)
            /\ \A i \in 1..Len(queryCache) :
                 IF queryCache[i].key = C27_StoredKey
                 THEN /\ queryCache'[i].key = C27_StoredKey
                      /\ queryCache'[i].entry.timestamp = now
                      /\ queryCache'[i].entry.hitCount = 0
                 ELSE queryCache'[i] = queryCache[i]
       ELSE IF Len(queryCache) + 1 <= MAX_CACHE_SIZE
       THEN /\ Len(queryCache') = Len(queryCache) + 1
            /\ \A i \in 1..Len(queryCache) : queryCache'[i] = queryCache[i]
       ELSE LET j == Cardinality(C27_Same) + 1
            IN  /\ Len(queryCache') = Len(queryCache)
                /\ C27_Same = 1..(j - 1)
                /\ \A i \in j..(Len(queryCache) - 1) : queryCache'[i] = queryCache[i + 1]
                /\ queryCache'[Len(queryCache')].key = C27_StoredKey

\* a lookup serves an entry younger than the TTL only, and storage is as before
C27_StaleIsMiss ==
  /\ (lastSearch'.kind = "search" /\ lastSearch'.source = "cache") =>
       /\ lastSearch'.cacheAge < CACHE_TTL
       /\ queryCache' = queryCache
  /\ providerCalls' = providerCalls + 1 =>
       LET key == KeyOfQuery[lastSearch'.asked]
       IN  /\ queryCache' = queryCache
           /\ CacheHas(queryCache, key) =>
                now - CacheGet(queryCache, key).timestamp >= CACHE_TTL

C27_LazyExpiry == [][C27_OnlyStoreRemoves /\ C27_StaleIsMiss]_vars

\* a search found its entry expired, started a fetch, and the entry is still stored
C27_Witness ==
  /\ lastSearch.kind = "search"
  /\ lastSearch.source = "fetching"
  /\ lastSearch.staleAge >= CACHE_TTL
  /\ CacheHas(queryCache, KeyOfQuery[lastSearch.asked])
  /\ now - CacheGet(queryCache, KeyOfQuery[lastSearch.asked]).timestamp >= CACHE_TTL

(***************************************************************************)
(* C28: a store under normalized key k overwrites any existing entry for k *)
(* with the new entry (new results, new creation time, hitCount 0) and     *)
(* afterwards, for every keyword in the stored semantics, k is a member of *)
(* the semantic index's key collection for that keyword.                   *)
(***************************************************************************)
\* the fetch of search p settled with results: lines 105-130 ran for p
C28_StoreStep(p) ==
  /\ p \notin pendingSearches'
  /\ lastSearch'.kind = "search"
  /\ lastSearch'.source = "live"

C28_Member(index, keyword, key) ==
  /\ keyword \in DOMAIN index
  /\ \E m \in 1..Len(index[keyword]) : index[keyword][m] = key

C28_StoreOverwrites ==
  \A p \in pendingSearches :
    C28_StoreStep(p) =>
      /\ Cardinality({i \in 1..Len(queryCache') : queryCache'[i].key = p.cacheKey}) = 1
      /\ LET entry == CacheGet(queryCache', p.cacheKey)
         IN  /\ entry.query = p.query
             /\ entry.results = lastSearch'.results
             /\ entry.timestamp = now
             /\ entry.hitCount = 0
             /\ entry.clientId = p.clientId
             /\ \A n \in 1..Len(entry.semantics.keywords) :
                  C28_Member(semanticIndex', entry.semantics.keywords[n], p.cacheKey)

C28_Store == [][C28_StoreOverwrites]_vars

\* the second store of one key: its keyword lists the key twice, the entry is new again
C28_Witness ==
  /\ lastSearch.kind = "search"
  /\ lastSearch.source = "live"
  /\ LET key == KeyOfQuery[lastSearch.asked]
     IN  /\ CacheHas(queryCache, key)
         /\ CacheGet(queryCache, key).hitCount = 0
         /\ CacheGet(queryCache, key).timestamp = now
         /\ now > 0
         /\ \E keyword \in DOMAIN semanticIndex :
              Cardinality({m \in 1..Len(semanticIndex[keyword]) :
                             semanticIndex[keyword][m] = key}) = 2

(***************************************************************************)
(* C29: the semantic index maps each keyword to a set of normalized keys:  *)
(* after any sequence of stores, including repeated stores of the same key *)
(* after its entry expired, no normalized key occurs more than once in the *)
(* key collection of any keyword.                                          *)
(***************************************************************************)
C29_KeysAreASet ==
  \A keyword \in DOMAIN semanticIndex :
    \A m, n \in 1..Len(semanticIndex[keyword]) :
      semanticIndex[keyword][m] = semanticIndex[keyword][n] => m = n

(***************************************************************************)
(* C30: a stored cache entry changes only by being replaced as a whole by  *)
(* a later store of the same key or by its hitCount growing by exactly 1   *)
(* per get_cached_results call that finds it; a cache hit in searchQuery,  *)
(* cache_status and rate-limit checks leave every field of every entry     *)
(* unchanged, and get_cached_results never calls the provider and never    *)
(* adds or removes an entry.                                               *)
(***************************************************************************)
C30_KeysOf(cache) == {cache[i].key : i \in 1..Len(cache)}

\* the keys that are still stored and whose entry is not what it was
C30_Changed ==
  {k \in C30_KeysOf(queryCache) :
     CacheHas(queryCache', k) /\ CacheGet(queryCache', k) # CacheGet(queryCache, k)}

\* the fetch of a search settled with results
C30_StoreStep ==
  /\ \E p \in pendingSearches : p \notin pendingSearches'
  /\ lastSearch'.kind = "search"
  /\ lastSearch'.source = "live"

\* a get_cached_results call returned
C30_GetCachedStep ==
  /\ lastSearch'.kind = "cached"
  /\ lastSearch' # lastSearch \/ queryCache' # queryCache

C30_OnlyStoreOrHit ==
  \A k \in C30_Changed :
    \/ /\ C30_StoreStep
       /\ KeyOfQuery[lastSearch'.asked] = k
       /\ CacheHas(queryCache', k)
       /\ CacheGet(queryCache', k).timestamp = now
       /\ CacheGet(queryCache', k).hitCount = 0
    \/ /\ C30_GetCachedStep
       /\ lastSearch'.found
       /\ KeyOfQuery[lastSearch'.asked] = k
       /\ CacheHas(queryCache', k)
       /\ CacheGet(queryCache', k) =
            [CacheGet(queryCache, k) EXCEPT !.hitCount = @ + 1]

C30_GetCachedIsLocal ==
  C30_GetCachedStep =>
    /\ providerCalls' = providerCalls
    /\ pendingSearches' = pendingSearches
    /\ C30_KeysOf(queryCache') = C30_KeysOf(queryCache)
    /\ Len(queryCache') = Len(queryCache)
    /\ semanticIndex' = semanticIndex
    /\ lastSearch'.found = CacheHas(queryCache, KeyOfQuery[lastSearch'.asked])
    /\ lastSearch'.found =>
         /\ C30_Changed = {KeyOfQuery[lastSearch'.asked]}
         /\ lastSearch'.hitCount =
              CacheGet(queryCache, KeyOfQuery[lastSearch'.asked]).hitCount + 1

C30_ReadersLeaveEntries ==
  /\ (lastSearch'.kind = "search" /\ lastSearch'.source = "cache") => queryCache' = queryCache
  /\ lastSearch'.kind = "status" => queryCache' = queryCache
  /\ (rateLimitTracker' # rateLimitTracker \/ lastRate' # lastRate) => queryCache' = queryCache

C30_EntryChanges ==
  [][C30_OnlyStoreOrHit /\ C30_GetCachedIsLocal /\ C30_ReadersLeaveEntries]_vars

\* searchQuery served from the cache an entry that get_cached_results had counted once,
\* after a rate-limit check: the count is still 1
C30_Witness ==
  /\ lastSearch.kind = "search"
  /\ lastSearch.source = "cache"
  /\ CacheGet(queryCache, KeyOfQuery[lastSearch.asked]).hitCount = 1
  /\ lastRate # NoResult

(***************************************************************************)
(* C31: every stream created by streamSearch is eventually closed (with    *)
(* reason complete, error or client_disconnect) and, once the grace period *)
(* has elapsed, eventually removed from the registry, provided the         *)
(* upstream call returns or fails and scheduled timers fire; no such       *)
(* stream stays active forever.                                            *)
(***************************************************************************)
C31_Reasons == {"complete", "error", "client_disconnect"}

C31_Created(id) == id \in DOMAIN streamFetches

C31_Closed(id) ==
  \/ /\ id \in DOMAIN activeStreams
     /\ activeStreams[id].status = "closed"
     /\ activeStreams[id].closeReason \in C31_Reasons
  \/ /\ id \in DOMAIN removedStreams
     /\ removedStreams[id].status = "closed"
     /\ removedStreams[id].closeReason \in C31_Reasons

C31_Removed(id) ==
  /\ id \notin DOMAIN activeStreams
  /\ id \in DOMAIN removedStreams
  /\ removedStreams[id].status = "closed"

C31_EventuallyClosedAndRemoved ==
  \A id \in StreamIds :
    /\ C31_Created(id) ~> (C31_Closed(id) /\ C31_Removed(id))
    /\ [](C31_Created(id) /\ id \notin DOMAIN activeStreams => C31_Removed(id))
    /\ [](id \in DOMAIN removedStreams => C31_Closed(id))

\* a stream whose search brought results was closed by its completion timer and,
\* 300000 ms later, deleted
C31_Witness ==
  \E id \in DOMAIN removedStreams :
    /\ id \notin DOMAIN activeStreams
    /\ streamFetches[id].state = "results"
    /\ removedStreams[id].closeReason = "complete"
    /\ now >= removedStreams[id].created + COMPLETE_DELAY_MS + GRACE_MS


(***************************************************************************)
(* C32: once a stream is closed its status stays closed and its            *)
(* closeReason never changes: a later close of the same stream (the API    *)
(* close action, or the completion of streamSearch after a client          *)
(* disconnect) does not overwrite the first recorded reason.               *)
(***************************************************************************)
C32_ClosedBefore(id) ==
  id \in DOMAIN activeStreams /\ activeStreams[id].status = "closed"

C32_ReasonIsFinal ==
  [][\A id \in StreamIds :
       C32_ClosedBefore(id) /\ id \in DOMAIN activeStreams' =>
         /\ activeStreams'[id].status = "closed"
         /\ activeStreams'[id].closeReason = activeStreams[id].closeReason]_vars


(***************************************************************************)
(* C33: in every reachable state streamMetrics.active equals the number of *)
(* streams that were created and not yet closed, so it is never negative,  *)
(* and streamMetrics.total equals the number of streams ever created,      *)
(* under any create, emit, subscribe, disconnect and close events,         *)
(* repeated closes of one stream included.                                 *)
(***************************************************************************)
C33_Open ==
  {id \in DOMAIN activeStreams : activeStreams[id].status = "active"}

C33_EverCreated == DOMAIN activeStreams \cup DOMAIN removedStreams

C33_MetricsCountStreams ==
  /\ streamMetrics.active = Cardinality(C33_Open)
  /\ streamMetrics.active >= 0
  /\ streamMetrics.total = Cardinality(C33_EverCreated)


(***************************************************************************)
(* C34: get_cached_results reports isStale = true exactly when the entry's *)
(* age is above the TTL; a searchQuery lookup of the same key at the same  *)
(* time treats the entry as expired exactly when isStale is true or the    *)
(* age equals the TTL, so the two agree at every age but the TTL itself,   *)
(* where the entry is reported not stale and the lookup is a miss.         *)
(***************************************************************************)
C34_GetCachedStep ==
  lastSearch' # lastSearch /\ lastSearch'.kind = "cached" /\ lastSearch'.found

C34_Entry == CacheGet(queryCache, KeyOfQuery[lastSearch'.asked])

\* line 80: what searchQuery does with the entry at this time
C34_LookupMisses == ~IsFresh(C34_Entry, now)

C34_StaleAboveTTL ==
  [][C34_GetCachedStep =>
       /\ lastSearch'.isStale = (now - C34_Entry.timestamp > CACHE_TTL)
       /\ C34_LookupMisses =
            (lastSearch'.isStale \/ now - C34_Entry.timestamp = CACHE_TTL)]_vars

\* the claim as written: stale exactly when the lookup misses
C34_AsWritten ==
  [][C34_GetCachedStep => lastSearch'.isStale = C34_LookupMisses]_vars

\* an entry read at age exactly the TTL was reported not stale
C34_Witness ==
  /\ lastSearch.kind = "cached"
  /\ lastSearch.found
  /\ lastSearch.age = CACHE_TTL
  /\ ~lastSearch.isStale


(***************************************************************************)
(* C35: the resetAt returned with a denial is exact: the client's next     *)
(* checkRateLimit call, at a time not before the denial, is admitted if    *)
(* and only if now >= resetAt; a denied call appends no timestamp, leaves  *)
(* the window full with its oldest timestamp 600,000 ms before resetAt,    *)
(* and a further denial returns the same resetAt.                          *)
(***************************************************************************)
C35_DeniedBefore(c) ==
  lastRate.kind = "rate" /\ lastRate.clientId = c /\ ~lastRate.allowed

C35_Post(c) ==
  LET res == lastRate'
      after == rateLimitTracker'[c]
  IN  /\ C35_DeniedBefore(c) =>
           /\ res.allowed <=> now >= lastRate.resetAt
           /\ ~res.allowed => res.resetAt = lastRate.resetAt
      /\ ~res.allowed =>
           /\ after = WindowOf(rateLimitTracker, c)
           /\ Len(after) = RATE_LIMIT
           /\ after[1] + RATE_WINDOW = res.resetAt
           /\ now < res.resetAt

C35_ResetAtExact ==
  [][\A c \in ClientIds : CheckRateLimit(c) => C35_Post(c)]_vars

\* a window filled at time 0 has denied a request 1 ms before its resetAt
C35_Witness ==
  /\ lastRate.kind = "rate"
  /\ ~lastRate.allowed
  /\ lastRate.resetAt = RATE_WINDOW
  /\ now = lastRate.resetAt - 1
  /\ LET w == WindowOf(rateLimitTracker, lastRate.clientId)
     IN  Len(w) = RATE_LIMIT /\ w[RATE_LIMIT] = 0


(***************************************************************************)
(* C36: for one normalized key at most one provider call is in flight at   *)
(* a time: a search arriving for a key while an earlier search of that key *)
(* is still waiting on its provider call issues no second call, and the    *)
(* completed searches add the key once to each keyword's collection.       *)
(***************************************************************************)
C36_InFlight(key) == {p \in pendingSearches : p.cacheKey = key}

C36_Occurrences(keys, key) == Cardinality({i \in 1..Len(keys) : keys[i] = key})

C36_SingleFlight ==
  /\ \A p \in pendingSearches : Cardinality(C36_InFlight(p.cacheKey)) <= 1
  /\ \A kw \in DOMAIN semanticIndex :
       \A i \in 1..Len(semanticIndex[kw]) :
         C36_Occurrences(semanticIndex[kw], semanticIndex[kw][i]) <= 1


(***************************************************************************)
(* C37: intelligentSearch, and researchSearch built on it, reports         *)
(* success = true only when its tavilySearch succeeded: whenever           *)
(* tavilySearch returns success = false, intelligentSearch returns         *)
(* success = false with the error, never a success with empty results.     *)
(***************************************************************************)
C37_SuccessOnlyWithTavily ==
  lastProvider.kind = "provider" =>
    /\ lastProvider.result.success => lastProvider.tavily.success
    /\ ~lastProvider.tavily.success =>
         /\ ~lastProvider.result.success
         /\ lastProvider.result.error = lastProvider.tavily.error


(***************************************************************************)
(* C38: whenever an executeSearch result carries failover = true, the      *)
(* provider named in primaryServerFailed is a registered provider that was *)
(* health-probed or called during this request and found unhealthy or      *)
(* failing; a request naming an unregistered provider causes no provider   *)
(* search call.                                                            *)
(***************************************************************************)
C38_Failover(r) ==
  r.pc = "done" /\ "failover" \in DOMAIN r.result /\ r.result.failover

C38_FoundFailing(r) ==
  \/ r.probes > 0 /\ r.health = "unhealthy"
  \/ r.posts # <<>> /\ r.posts[1] = r.result.primaryServerFailed /\ Len(r.posts) > 1

C38_FailoverNamesFailedProvider ==
  \A i \in 1..Len(orchRequests) :
    LET r == orchRequests[i]
    IN  /\ C38_Failover(r) =>
             /\ r.result.primaryServerFailed \in DOMAIN servers
             /\ C38_FoundFailing(r)
        /\ r.server \notin DOMAIN servers => r.posts = <<>>


(***************************************************************************)
(* C39: a web_search request that fails as invalid input (missing query)   *)
(* leaves all shared state as it was before the request: it takes no slot  *)
(* of the client's rate-limit window and changes neither the cache nor the *)
(* semantic index.                                                         *)
(***************************************************************************)
C39_InvalidStep ==
  /\ \E input \in ApiInputs : ~input.hasQuery /\ ApiWebSearch(input, BusyClient)
  /\ apiRequests'[Len(apiRequests')].status = 500

C39_InvalidLeavesState ==
  [][C39_InvalidStep =>
       /\ rateLimitTracker' = rateLimitTracker
       /\ queryCache' = queryCache
       /\ semanticIndex' = semanticIndex]_vars


(***************************************************************************)
(* C40: rate-limit windows are isolated per client: checkRateLimit(c)      *)
(* never changes the window of a client other than c, and its decision and *)
(* returned values are those of a limiter that holds c's window alone at   *)
(* the current time, so a client that exhausted its quota never causes     *)
(* another client to be denied.                                            *)
(***************************************************************************)
C40_Own(tracker, c) == IF c \in DOMAIN tracker THEN tracker[c] ELSE <<>>

\* a tracker that knows no client but c
C40_Alone(c) ==
  IF c \in DOMAIN rateLimitTracker THEN (c :> rateLimitTracker[c]) ELSE <<>>

C40_Post(c) ==
  /\ \A d \in ClientIds \ {c} :
       /\ d \in DOMAIN rateLimitTracker' <=> d \in DOMAIN rateLimitTracker
       /\ C40_Own(rateLimitTracker', d) = C40_Own(rateLimitTracker, d)
  /\ lastRate' = checkRateLimit(C40_Alone(c), c, now).result
  /\ rateLimitTracker'[c] = checkRateLimit(C40_Alone(c), c, now).tracker[c]
  /\ Len(C40_Own(rateLimitTracker, c)) < RATE_LIMIT => lastRate'.allowed

C40_WindowsIsolated ==
  [][\A c \in ClientIds : CheckRateLimit(c) => C40_Post(c)]_vars

\* a client was admitted with a full quota left while the other's window is full
C40_Witness ==
  /\ lastRate.kind = "rate"
  /\ lastRate.clientId = QuietClient
  /\ lastRate.allowed
  /\ lastRate.remaining = RATE_LIMIT - 1
  /\ Len(C40_Own(rateLimitTracker, BusyClient)) = RATE_LIMIT
  /\ rateLimitTracker[BusyClient][RATE_LIMIT] > now - RATE_WINDOW

=============================================================================
